---- MODULE Spec2Model ----
(***************************************************************************)
(* The view store of sql-to-logsql (lib/store/viewstore/viewstore.go) and  *)
(* the CREATE VIEW / DROP VIEW handlers that drive it.                     *)
(*                                                                         *)
(* One view <base> is modelled: its files <base>.logsql, <base>.lock and   *)
(* the temp files <base>-*.tmp inside the views directory.  Requests run   *)
(* in threads; every thread belongs to a process, every process has one   *)
(* ViewStore (one sync.RWMutex), all processes share the directory.  Each  *)
(* system call of Save, Load and Remove is one step, so that other         *)
(* threads and processes interleave between any two of them.  A system     *)
(* call whose error the code tests can fail.                               *)
(***************************************************************************)
EXTENDS Integers, Sequences, FiniteSets, TLC

\* ---- bounds -----------------------------------------------------------
\* system calls that fail in one behaviour
MaxFaults == 1
\* longest query string of the round-trip specification
MaxQueryLen == 3

\* two request threads, each serving one request: every property below is about
\* one request or about a pair of overlapping requests; what earlier requests
\* left behind is covered by the directories Init starts from
Threads == {1, 2}
\* the processes sharing the views directory
Procs == {1, 2}

\* ---- strings: sequences of one-character strings ------------------------
NL == "\n"
CR == "\r"

\* the translated queries handed to Save
Queries == { <<"a">>, <<"b", NL>> }
\* content of a view file that exists before the first request
SeedContent == <<"o", NL>>

\* ---- files ------------------------------------------------------------------
Absent == [kind |-> "absent", data |-> <<>>]
Dir == [kind |-> "dir", data |-> <<>>]
File(c) == [kind |-> "file", data |-> c]

\* ---- errors ---------------------------------------------------------------
\* kind "nil" is the nil error, "StoreError" is *viewstore.StoreError (with its
\* Code), "error" is a plain fmt.Errorf error (code 0: it carries none).
NoErr == [kind |-> "nil", code |-> 0, msg |-> ""]
StoreError(c, m) == [kind |-> "StoreError", code |-> c, msg |-> m]
Errorf(m) == [kind |-> "error", code |-> 0, msg |-> m]

StatusBadRequest == 400
StatusLocked == 423

\* strings.HasSuffix(query, "\n")
HasSuffixNL(q) == Len(q) > 0 /\ q[Len(q)] = NL

\* a variant of Finalize that appends the newline unconditionally
FinalizeAlways(q) == Append(q, NL)

\* what Save leaves in the temp file: query, plus "\n" unless it ends in one
Finalize(q) == IF HasSuffixNL(q) THEN q ELSE Append(q, NL)

\* a variant of ExistingDecision that tests OrReplace first
ExistingDecisionReplaceFirst(orReplace, ifNotExists) ==
    IF orReplace THEN "replace"
    ELSE IF ifNotExists THEN "noop" ELSE "exists"

\* Save, stat of the view succeeded: IfNotExists is tested before OrReplace
ExistingDecision(orReplace, ifNotExists) ==
    IF ifNotExists THEN "noop"
    ELSE IF ~orReplace THEN "exists" ELSE "replace"

VARIABLES
    proc,       \* proc[t]: the process thread t runs in
    dirExists,  \* the views directory exists
    view,       \* <base>.logsql
    lock,       \* <base>.lock exists
    tmp,        \* tmp[t]: the temp file created by t's Save
    mu,         \* mu[p]: the sync.RWMutex of process p's ViewStore
    pc,         \* pc[t]: position of t in its request
    req,        \* req[t]: the request t is serving (or served last)
    loc,        \* loc[t]: local variables of the running call
    ret,        \* ret[t]: what the last finished request returned
    obs,        \* obs[t]: history of a Load (what it may see, what it saw)
    hist,       \* history of the behaviour
    arg,        \* the input of the function a sequential specification applies
    res,        \* what that function has computed so far
    at          \* the position of the sequential specification

storeVars == <<proc, dirExists, view, lock, tmp, mu, pc, req, loc, ret, obs, hist>>
pureVars == <<arg, res, at>>
vars == <<proc, dirExists, view, lock, tmp, mu, pc, req, loc, ret, obs, hist, arg, res, at>>

NoReq == [op |-> "none", q |-> <<>>, orReplace |-> FALSE, ifNotExists |-> FALSE, ifExists |-> FALSE]

\* existingView, err: the variables of Save/Remove; holds: lockFile is open and
\* the deferred release is pending.  The rest is history of the call:
\* acquired (it created the lock file), released (its os.Remove of the lock
\* file succeeded), unlinkFailed (that os.Remove failed), lockSeen (the lock
\* file existed when it tried to create it), statSaw (what os.Stat(viewPath)
\* found, "nodir" when Remove found no views directory), wrote (its rename
\* replaced the view file, or its os.Remove deleted it), snap (the view file when
\* it created the lock file).
NoLoc == [existingView |-> FALSE, holds |-> FALSE, err |-> NoErr,
          acquired |-> FALSE, released |-> FALSE, unlinkFailed |-> FALSE,
          lockSeen |-> FALSE, statSaw |-> "none", wrote |-> FALSE, snap |-> Absent]

\* err, out, found: the values returned; the rest is copied from loc
NoRet == [done |-> FALSE, err |-> NoErr, out |-> <<>>, found |-> FALSE,
          acquired |-> FALSE, released |-> FALSE, unlinkFailed |-> FALSE,
          lockSeen |-> FALSE, statSaw |-> "none", wrote |-> FALSE]

\* may: the view file before the writes of the Load's process that overlap the
\* Load and after each of them; foreign: another process changed the view during
\* the Load; saw: the file as the Load's os.Stat / os.ReadFile found it
NoObs == [may |-> {}, foreign |-> FALSE, saw |-> Absent]

\* the sequential specifications are not running
PureIdle == arg = <<>> /\ res = <<>> /\ at = "none"

Init ==
    /\ PureIdle
    /\ proc \in { f \in [Threads -> Procs] : f[1] = 1 }
    /\ dirExists \in BOOLEAN
    /\ view \in (IF dirExists THEN {Absent, Dir, File(SeedContent)} ELSE {Absent})
    /\ lock \in (IF dirExists THEN BOOLEAN ELSE {FALSE})
    /\ tmp = [t \in Threads |-> Absent]
    /\ mu = [p \in Procs |-> [writer |-> 0, readers |-> {}]]
    /\ pc = [t \in Threads |-> "idle"]
    /\ req = [t \in Threads |-> NoReq]
    /\ loc = [t \in Threads |-> NoLoc]
    /\ ret = [t \in Threads |-> NoRet]
    /\ obs = [t \in Threads |-> NoObs]
    /\ hist = [clean |-> (view = Absent /\ ~lock),  \* no view and no lock file at the start
               faults |-> 0,                        \* system calls that have failed
               drop |-> FALSE,                      \* a DROP VIEW has started
               creates |-> 0,                       \* CREATE VIEW requests started
               created |-> 0]                       \* Saves that found no view and renamed

\* a system call may fail
CanFault == hist.faults < MaxFaults

\* a system call fails
Fault == [hist EXCEPT !.faults = @ + 1]

\* ---- history kept for the Loads in flight ------------------------------------
InLoad(t) == pc[t] \in {"l_mu", "l_stat", "l_read", "l_ret"}

\* thread u changed the view file: Loads of other processes are marked
MarkForeign(u) ==
    [t \in Threads |->
        IF InLoad(t) /\ proc[t] # proc[u]
        THEN [obs[t] EXCEPT !.foreign = TRUE] ELSE obs[t]]

\* a write of thread u has returned: the view file it leaves is one the
\* overlapping Loads of u's process may see
MarkPost(u) ==
    [t \in Threads |->
        IF InLoad(t) /\ proc[t] = proc[u] /\ t # u
        THEN [obs[t] EXCEPT !.may = @ \cup {view}] ELSE obs[t]]

\* ---- sync.RWMutex ---------------------------------------------------------
\* a variant of RLockFree for a Load that does not wait for the writer
RLockFreeNoLock(p) == TRUE

\* RLock proceeds when no writer holds the mutex
RLockFree(p) == mu[p].writer = 0

\* Lock proceeds when nobody holds the mutex
LockFree(p) == mu[p].writer = 0 /\ mu[p].readers = {}

\* ---- os.OpenFile(lockPath, O_CREATE|O_EXCL|O_WRONLY) -----------------------
\* a variant of LockOpenSucceeds without O_EXCL
LockOpenSucceedsNoExcl == TRUE

\* O_EXCL: the open creates the lock file only when it does not exist
LockOpenSucceeds == lock = FALSE

\* a variant of SaveLockedError that returns a plain error
SaveLockedErrorPlain == Errorf("locked")

\* Save, the lock file exists: StoreError{Code: http.StatusLocked, "... is locked"}
SaveLockedError == StoreError(StatusLocked, "locked")

\* Remove, the lock file exists: fmt.Errorf("viewstore: view %s is locked")
RemoveLockedError == Errorf("locked")

\* a variant of ExitPc whose returns skip the deferred release
ExitPcNoDefer(op, holds) == IF op = "CreateView" THEN "s_ret" ELSE "r_ret"

\* where a return of Save/Remove continues: the deferred release of the lock
\* file runs first when the call created it, then the deferred mu.Unlock
ExitPc(op, holds) ==
    IF op = "CreateView"
    THEN (IF holds THEN "s_unlock" ELSE "s_ret")
    ELSE (IF holds THEN "r_unlock" ELSE "r_ret")

\* the values a finished call hands back, with the history of the call
Returned(t, out, found) ==
    [done |-> TRUE, err |-> loc[t].err, out |-> out, found |-> found,
     acquired |-> loc[t].acquired, released |-> loc[t].released,
     unlinkFailed |-> loc[t].unlinkFailed, lockSeen |-> loc[t].lockSeen,
     statSaw |-> loc[t].statSaw, wrote |-> loc[t].wrote]

\* a request starts in thread t
Begin(t, r, firstPc) ==
    /\ pc[t] = "idle"
    /\ req[t].op = "none"
    /\ req' = [req EXCEPT ![t] = r]
    /\ pc' = [pc EXCEPT ![t] = firstPc]
    /\ loc' = [loc EXCEPT ![t] = NoLoc]
    /\ ret' = [ret EXCEPT ![t] = NoRet]
    /\ UNCHANGED <<proc, dirExists, view, lock, tmp, mu>>

\* ---- CREATE VIEW: translateCreateView and ViewStore.Save ---------------------
\* translateCreateView has translated the SELECT to q and calls Save
CreateViewBegin(t) ==
    /\ \E q \in Queries, r \in BOOLEAN, i \in BOOLEAN :
         Begin(t, [op |-> "CreateView", q |-> q, orReplace |-> r,
                   ifNotExists |-> i, ifExists |-> FALSE], "s_mu")
    /\ obs' = [obs EXCEPT ![t] = NoObs]
    /\ hist' = [hist EXCEPT !.creates = @ + 1]

\* s.mu.Lock()
SaveMuLock(t) ==
    /\ pc[t] = "s_mu"
    /\ LockFree(proc[t])
    /\ mu' = [mu EXCEPT ![proc[t]].writer = t]
    /\ pc' = [pc EXCEPT ![t] = "s_mkdir"]
    /\ UNCHANGED <<proc, dirExists, view, lock, tmp, req, loc, ret, obs, hist>>

\* os.MkdirAll(s.dir)
SaveMkdirAll(t) ==
    /\ pc[t] = "s_mkdir"
    /\ \/ /\ dirExists' = TRUE
          /\ pc' = [pc EXCEPT ![t] = "s_lock"]
          /\ UNCHANGED <<loc, hist>>
       \/ /\ ~dirExists
          /\ CanFault
          /\ hist' = Fault
          /\ loc' = [loc EXCEPT ![t].err = Errorf("ensure views directory")]
          /\ pc' = [pc EXCEPT ![t] = ExitPc("CreateView", FALSE)]
          /\ UNCHANGED dirExists
    /\ UNCHANGED <<proc, view, lock, tmp, mu, req, ret, obs>>

\* os.OpenFile(lockPath, O_CREATE|O_EXCL|O_WRONLY) and its error branches
SaveOpenLock(t) ==
    /\ pc[t] = "s_lock"
    /\ \/ /\ LockOpenSucceeds
          /\ lock' = TRUE
          /\ loc' = [loc EXCEPT ![t].holds = TRUE, ![t].acquired = TRUE,
                                ![t].lockSeen = lock, ![t].snap = view]
          /\ pc' = [pc EXCEPT ![t] = "s_stat"]
          /\ UNCHANGED hist
       \/ /\ ~LockOpenSucceeds
          /\ loc' = [loc EXCEPT ![t].err = SaveLockedError, ![t].lockSeen = lock]
          /\ pc' = [pc EXCEPT ![t] = ExitPc("CreateView", FALSE)]
          /\ UNCHANGED <<lock, hist>>
       \/ /\ ~lock
          /\ CanFault
          /\ hist' = Fault
          /\ loc' = [loc EXCEPT ![t].err = StoreError(StatusLocked, "create lock")]
          /\ pc' = [pc EXCEPT ![t] = ExitPc("CreateView", FALSE)]
          /\ UNCHANGED lock
    /\ UNCHANGED <<proc, dirExists, view, tmp, mu, req, ret, obs>>

\* os.Stat(viewPath) and the decision on an existing view
SaveStat(t) ==
    /\ pc[t] = "s_stat"
    /\ \/ /\ view.kind = "dir"
          /\ loc' = [loc EXCEPT ![t].err = Errorf("found directory"), ![t].statSaw = "dir"]
          /\ pc' = [pc EXCEPT ![t] = ExitPc("CreateView", loc[t].holds)]
          /\ UNCHANGED hist
       \/ /\ view.kind = "file"
          /\ LET d == ExistingDecision(req[t].orReplace, req[t].ifNotExists) IN
             \/ /\ d = "noop"
                /\ loc' = [loc EXCEPT ![t].statSaw = "file"]
                /\ pc' = [pc EXCEPT ![t] = ExitPc("CreateView", loc[t].holds)]
             \/ /\ d = "exists"
                /\ loc' = [loc EXCEPT ![t].err = StoreError(StatusBadRequest, "already exists"),
                                      ![t].statSaw = "file"]
                /\ pc' = [pc EXCEPT ![t] = ExitPc("CreateView", loc[t].holds)]
             \/ /\ d = "replace"
                /\ loc' = [loc EXCEPT ![t].existingView = TRUE, ![t].statSaw = "file"]
                /\ pc' = [pc EXCEPT ![t] = "s_tmp"]
          /\ UNCHANGED hist
       \/ /\ view.kind = "absent"
          /\ loc' = [loc EXCEPT ![t].existingView = FALSE, ![t].statSaw = "absent"]
          /\ pc' = [pc EXCEPT ![t] = "s_tmp"]
          /\ UNCHANGED hist
       \/ /\ CanFault
          /\ hist' = Fault
          /\ loc' = [loc EXCEPT ![t].err = Errorf("stat view"), ![t].statSaw = "err"]
          /\ pc' = [pc EXCEPT ![t] = ExitPc("CreateView", loc[t].holds)]
    /\ UNCHANGED <<proc, dirExists, view, lock, tmp, mu, req, ret, obs>>

\* os.CreateTemp(s.dir, fileName+"-*.tmp"): a new file with a name of its own
SaveCreateTemp(t) ==
    /\ pc[t] = "s_tmp"
    /\ \/ /\ tmp' = [tmp EXCEPT ![t] = File(<<>>)]
          /\ pc' = [pc EXCEPT ![t] = "s_write"]
          /\ UNCHANGED <<loc, hist>>
       \/ /\ CanFault
          /\ hist' = Fault
          /\ loc' = [loc EXCEPT ![t].err = Errorf("create temp file")]
          /\ pc' = [pc EXCEPT ![t] = ExitPc("CreateView", loc[t].holds)]
          /\ UNCHANGED tmp
    /\ UNCHANGED <<proc, dirExists, view, lock, mu, req, ret, obs>>

\* tmpFile.WriteString(query); on error cleanupTmp() closes and deletes the
\* temp file
SaveWriteQuery(t) ==
    /\ pc[t] = "s_write"
    /\ \/ /\ tmp' = [tmp EXCEPT ![t] = File(req[t].q)]
          /\ pc' = [pc EXCEPT ![t] = IF Finalize(req[t].q) = req[t].q THEN "s_close" ELSE "s_nl"]
          /\ UNCHANGED <<loc, hist>>
       \/ /\ CanFault
          /\ hist' = Fault
          /\ tmp' = [tmp EXCEPT ![t] = Absent]
          /\ loc' = [loc EXCEPT ![t].err = Errorf("write view")]
          /\ pc' = [pc EXCEPT ![t] = ExitPc("CreateView", loc[t].holds)]
    /\ UNCHANGED <<proc, dirExists, view, lock, mu, req, ret, obs>>

\* tmpFile.WriteString("\n") when the query does not end in one; on error
\* cleanupTmp()
SaveWriteNewline(t) ==
    /\ pc[t] = "s_nl"
    /\ \/ /\ tmp' = [tmp EXCEPT ![t] = File(Finalize(req[t].q))]
          /\ pc' = [pc EXCEPT ![t] = "s_close"]
          /\ UNCHANGED <<loc, hist>>
       \/ /\ CanFault
          /\ hist' = Fault
          /\ tmp' = [tmp EXCEPT ![t] = Absent]
          /\ loc' = [loc EXCEPT ![t].err = Errorf("finalize view")]
          /\ pc' = [pc EXCEPT ![t] = ExitPc("CreateView", loc[t].holds)]
    /\ UNCHANGED <<proc, dirExists, view, lock, mu, req, ret, obs>>

\* tmpFile.Close(); on error os.Remove(tmpName)
SaveClose(t) ==
    /\ pc[t] = "s_close"
    /\ \/ /\ pc' = [pc EXCEPT ![t] = IF loc[t].existingView THEN "s_rm" ELSE "s_rename"]
          /\ UNCHANGED <<tmp, loc, hist>>
       \/ /\ CanFault
          /\ hist' = Fault
          /\ tmp' = [tmp EXCEPT ![t] = Absent]
          /\ loc' = [loc EXCEPT ![t].err = Errorf("flush view")]
          /\ pc' = [pc EXCEPT ![t] = ExitPc("CreateView", loc[t].holds)]
    /\ UNCHANGED <<proc, dirExists, view, lock, mu, req, ret, obs>>

\* if existingView: os.Remove(viewPath), fs.ErrNotExist tolerated; on another
\* error os.Remove(tmpName)
SaveRemoveExisting(t) ==
    /\ pc[t] = "s_rm"
    /\ \/ /\ view' = Absent
          /\ obs' = IF view # Absent THEN MarkForeign(t) ELSE obs
          /\ pc' = [pc EXCEPT ![t] = "s_rename"]
          /\ UNCHANGED <<tmp, loc, hist>>
       \/ /\ view # Absent
          /\ CanFault
          /\ hist' = Fault
          /\ tmp' = [tmp EXCEPT ![t] = Absent]
          /\ loc' = [loc EXCEPT ![t].err = Errorf("Remove existing view")]
          /\ pc' = [pc EXCEPT ![t] = ExitPc("CreateView", loc[t].holds)]
          /\ UNCHANGED <<view, obs>>
    /\ UNCHANGED <<proc, dirExists, lock, mu, req, ret>>

\* os.Rename(tmpName, viewPath); on error os.Remove(tmpName)
SaveRename(t) ==
    /\ pc[t] = "s_rename"
    /\ \/ /\ view.kind # "dir"
          /\ view' = tmp[t]
          /\ obs' = MarkForeign(t)
          /\ tmp' = [tmp EXCEPT ![t] = Absent]
          /\ loc' = [loc EXCEPT ![t].wrote = TRUE]
          /\ hist' = IF ~loc[t].existingView
                     THEN [hist EXCEPT !.created = @ + 1] ELSE hist
       \/ /\ CanFault
          /\ hist' = Fault
          /\ tmp' = [tmp EXCEPT ![t] = Absent]
          /\ loc' = [loc EXCEPT ![t].err = Errorf("replace view")]
          /\ UNCHANGED <<view, obs>>
    /\ pc' = [pc EXCEPT ![t] = ExitPc("CreateView", loc[t].holds)]
    /\ UNCHANGED <<proc, dirExists, lock, mu, req, ret>>

\* the deferred lockFile.Close() and os.Remove(lockPath); a failure is only
\* printed as a warning
SaveUnlockFile(t) ==
    /\ pc[t] = "s_unlock"
    /\ \/ /\ lock' = FALSE
          /\ loc' = [loc EXCEPT ![t].holds = FALSE, ![t].released = TRUE]
          /\ UNCHANGED hist
       \/ /\ lock
          /\ CanFault
          /\ hist' = Fault
          /\ loc' = [loc EXCEPT ![t].holds = FALSE, ![t].unlinkFailed = TRUE]
          /\ UNCHANGED lock
    /\ pc' = [pc EXCEPT ![t] = "s_ret"]
    /\ UNCHANGED <<proc, dirExists, view, tmp, mu, req, ret, obs>>

\* the deferred s.mu.Unlock(); Save returns.  translateCreateView stores the
\* query as its result; ExecuteCreateStatement hands it out when err is nil.
SaveReturn(t) ==
    /\ pc[t] = "s_ret"
    /\ mu' = [mu EXCEPT ![proc[t]].writer = 0]
    /\ ret' = [ret EXCEPT ![t] =
                 Returned(t, IF loc[t].err = NoErr THEN req[t].q ELSE <<>>, FALSE)]
    /\ loc' = [loc EXCEPT ![t] = NoLoc]
    /\ obs' = MarkPost(t)
    /\ pc' = [pc EXCEPT ![t] = "idle"]
    /\ UNCHANGED <<proc, dirExists, view, lock, tmp, req, hist>>

Save(t) ==
    \/ SaveMuLock(t) \/ SaveMkdirAll(t) \/ SaveOpenLock(t) \/ SaveStat(t)
    \/ SaveCreateTemp(t) \/ SaveWriteQuery(t) \/ SaveWriteNewline(t) \/ SaveClose(t)
    \/ SaveRemoveExisting(t) \/ SaveRename(t)
    \/ SaveUnlockFile(t) \/ SaveReturn(t)

\* ---- SELECT / DESCRIBE VIEW: ViewStore.Load -------------------------------
\* strings.TrimRight(s, "\r\n")
RECURSIVE TrimRightCRLF(_)
TrimRightOneNL(s) ==
    IF Len(s) > 0 /\ s[Len(s)] = NL THEN SubSeq(s, 1, Len(s) - 1) ELSE s

TrimRightCRLF(s) ==
    IF Len(s) > 0 /\ s[Len(s)] \in {CR, NL}
    THEN TrimRightCRLF(SubSeq(s, 1, Len(s) - 1)) ELSE s

\* unicode.IsSpace on the characters of the model
IsSpace(c) == c \in {" ", "\t", NL, CR}

\* strings.TrimSpace(s) == ""
IsBlank(s) == \A i \in 1..Len(s) : IsSpace(s[i])

\* a SELECT or DESCRIBE VIEW names the view: Load is called
LoadBegin(t) ==
    /\ Begin(t, [NoReq EXCEPT !.op = "Load"], "l_mu")
    /\ obs' = [obs EXCEPT ![t] =
                 [may |-> { IF \E u \in Threads : proc[u] = proc[t] /\ loc[u].holds
                            THEN loc[CHOOSE u \in Threads : proc[u] = proc[t] /\ loc[u].holds].snap
                            ELSE view },
                  foreign |-> FALSE, saw |-> Absent]]
    /\ UNCHANGED hist

\* s.mu.RLock()
LoadRLock(t) ==
    /\ pc[t] = "l_mu"
    /\ RLockFree(proc[t])
    /\ mu' = [mu EXCEPT ![proc[t]].readers = @ \cup {t}]
    /\ pc' = [pc EXCEPT ![t] = "l_stat"]
    /\ UNCHANGED <<proc, dirExists, view, lock, tmp, req, loc, ret, obs, hist>>

\* os.Stat(viewPath)
LoadStat(t) ==
    /\ pc[t] = "l_stat"
    /\ \/ /\ view.kind = "absent"
          /\ pc' = [pc EXCEPT ![t] = "l_ret"]
          /\ obs' = [obs EXCEPT ![t].saw = Absent]
          /\ UNCHANGED <<loc, hist>>
       \/ /\ view.kind = "dir"
          /\ loc' = [loc EXCEPT ![t].err = Errorf("found directory")]
          /\ pc' = [pc EXCEPT ![t] = "l_ret"]
          /\ UNCHANGED <<obs, hist>>
       \/ /\ view.kind = "file"
          /\ pc' = [pc EXCEPT ![t] = "l_read"]
          /\ UNCHANGED <<loc, obs, hist>>
       \/ /\ CanFault
          /\ hist' = Fault
          /\ loc' = [loc EXCEPT ![t].err = Errorf("stat view")]
          /\ pc' = [pc EXCEPT ![t] = "l_ret"]
          /\ UNCHANGED obs
    /\ UNCHANGED <<proc, dirExists, view, lock, tmp, mu, req, ret>>

\* os.ReadFile(viewPath), TrimRight, the test for an empty view
LoadRead(t) ==
    /\ pc[t] = "l_read"
    /\ \/ /\ view.kind = "file"
          /\ obs' = [obs EXCEPT ![t].saw = view]
          /\ loc' = IF IsBlank(TrimRightCRLF(view.data))
                    THEN [loc EXCEPT ![t].err = Errorf("is empty")]
                    ELSE loc
          /\ UNCHANGED hist
       \/ /\ view.kind # "file"
          /\ loc' = [loc EXCEPT ![t].err = Errorf("read view")]
          /\ UNCHANGED <<obs, hist>>
       \/ /\ view.kind = "file"
          /\ CanFault
          /\ hist' = Fault
          /\ loc' = [loc EXCEPT ![t].err = Errorf("read view")]
          /\ UNCHANGED obs
    /\ pc' = [pc EXCEPT ![t] = "l_ret"]
    /\ UNCHANGED <<proc, dirExists, view, lock, tmp, mu, req, ret>>

\* the deferred s.mu.RUnlock(); Load returns (query, displayName, found, err)
LoadReturn(t) ==
    /\ pc[t] = "l_ret"
    /\ mu' = [mu EXCEPT ![proc[t]].readers = @ \ {t}]
    /\ LET found == loc[t].err = NoErr /\ obs[t].saw.kind = "file" IN
       ret' = [ret EXCEPT ![t] =
                 Returned(t, IF found THEN TrimRightCRLF(obs[t].saw.data) ELSE <<>>, found)]
    /\ loc' = [loc EXCEPT ![t] = NoLoc]
    /\ pc' = [pc EXCEPT ![t] = "idle"]
    /\ UNCHANGED <<proc, dirExists, view, lock, tmp, req, obs, hist>>

Load(t) == LoadRLock(t) \/ LoadStat(t) \/ LoadRead(t) \/ LoadReturn(t)

\* ---- DROP VIEW: translateDropView and ViewStore.Remove -----------------------
\* translateDropView calls Remove(parts, ifExists)
DropViewBegin(t) ==
    /\ \E e \in BOOLEAN : Begin(t, [NoReq EXCEPT !.op = "DropView", !.ifExists = e], "r_mu")
    /\ obs' = [obs EXCEPT ![t] = NoObs]
    /\ hist' = [hist EXCEPT !.drop = TRUE]

\* a missing view (or views directory): nil under IF EXISTS, else an error
AbsentResultAlwaysFails(ifExists) ==
    Errorf("does not exist")

AbsentResult(ifExists) ==
    IF ifExists THEN NoErr ELSE Errorf("does not exist")

\* s.mu.Lock()
RemoveMuLock(t) ==
    /\ pc[t] = "r_mu"
    /\ LockFree(proc[t])
    /\ mu' = [mu EXCEPT ![proc[t]].writer = t]
    /\ pc' = [pc EXCEPT ![t] = "r_lock"]
    /\ UNCHANGED <<proc, dirExists, view, lock, tmp, req, loc, ret, obs, hist>>

\* os.OpenFile(lockPath, O_CREATE|O_EXCL|O_WRONLY) and its error branches; the
\* directory is not created first, so the open can fail with fs.ErrNotExist
RemoveOpenLock(t) ==
    /\ pc[t] = "r_lock"
    /\ \/ /\ dirExists
          /\ LockOpenSucceeds
          /\ lock' = TRUE
          /\ loc' = [loc EXCEPT ![t].holds = TRUE, ![t].acquired = TRUE,
                                ![t].lockSeen = lock, ![t].snap = view]
          /\ pc' = [pc EXCEPT ![t] = "r_stat"]
          /\ UNCHANGED hist
       \/ /\ dirExists
          /\ ~LockOpenSucceeds
          /\ loc' = [loc EXCEPT ![t].err = RemoveLockedError, ![t].lockSeen = lock]
          /\ pc' = [pc EXCEPT ![t] = ExitPc("DropView", FALSE)]
          /\ UNCHANGED <<lock, hist>>
       \/ /\ ~dirExists
          /\ loc' = [loc EXCEPT ![t].err = AbsentResult(req[t].ifExists),
                                ![t].statSaw = "nodir"]
          /\ pc' = [pc EXCEPT ![t] = ExitPc("DropView", FALSE)]
          /\ UNCHANGED <<lock, hist>>
       \/ /\ dirExists
          /\ ~lock
          /\ CanFault
          /\ hist' = Fault
          /\ loc' = [loc EXCEPT ![t].err = Errorf("create lock")]
          /\ pc' = [pc EXCEPT ![t] = ExitPc("DropView", FALSE)]
          /\ UNCHANGED lock
    /\ UNCHANGED <<proc, dirExists, view, tmp, mu, req, ret, obs>>

\* os.Stat(viewPath)
RemoveStat(t) ==
    /\ pc[t] = "r_stat"
    /\ \/ /\ view.kind = "absent"
          /\ loc' = [loc EXCEPT ![t].err = AbsentResult(req[t].ifExists),
                                ![t].statSaw = "absent"]
          /\ pc' = [pc EXCEPT ![t] = ExitPc("DropView", loc[t].holds)]
          /\ UNCHANGED hist
       \/ /\ view.kind = "dir"
          /\ loc' = [loc EXCEPT ![t].err = Errorf("found directory"), ![t].statSaw = "dir"]
          /\ pc' = [pc EXCEPT ![t] = ExitPc("DropView", loc[t].holds)]
          /\ UNCHANGED hist
       \/ /\ view.kind = "file"
          /\ loc' = [loc EXCEPT ![t].statSaw = "file"]
          /\ pc' = [pc EXCEPT ![t] = "r_rm"]
          /\ UNCHANGED hist
       \/ /\ CanFault
          /\ hist' = Fault
          /\ loc' = [loc EXCEPT ![t].err = Errorf("stat view"), ![t].statSaw = "err"]
          /\ pc' = [pc EXCEPT ![t] = ExitPc("DropView", loc[t].holds)]
    /\ UNCHANGED <<proc, dirExists, view, lock, tmp, mu, req, ret, obs>>

\* os.Remove(viewPath)
RemoveUnlink(t) ==
    /\ pc[t] = "r_rm"
    /\ \/ /\ view.kind = "file"
          /\ view' = Absent
          /\ obs' = MarkForeign(t)
          /\ loc' = [loc EXCEPT ![t].wrote = TRUE]
          /\ UNCHANGED hist
       \/ /\ view.kind # "file"
          /\ loc' = [loc EXCEPT ![t].err = Errorf("Remove view")]
          /\ UNCHANGED <<view, obs, hist>>
       \/ /\ view.kind = "file"
          /\ CanFault
          /\ hist' = Fault
          /\ loc' = [loc EXCEPT ![t].err = Errorf("Remove view")]
          /\ UNCHANGED <<view, obs>>
    /\ pc' = [pc EXCEPT ![t] = ExitPc("DropView", loc[t].holds)]
    /\ UNCHANGED <<proc, dirExists, lock, tmp, mu, req, ret>>

\* the deferred lockFile.Close() and os.Remove(lockPath); a failure is only
\* printed as a warning
RemoveUnlockFile(t) ==
    /\ pc[t] = "r_unlock"
    /\ \/ /\ lock' = FALSE
          /\ loc' = [loc EXCEPT ![t].holds = FALSE, ![t].released = TRUE]
          /\ UNCHANGED hist
       \/ /\ lock
          /\ CanFault
          /\ hist' = Fault
          /\ loc' = [loc EXCEPT ![t].holds = FALSE, ![t].unlinkFailed = TRUE]
          /\ UNCHANGED lock
    /\ pc' = [pc EXCEPT ![t] = "r_ret"]
    /\ UNCHANGED <<proc, dirExists, view, tmp, mu, req, ret, obs>>

\* the deferred s.mu.Unlock(); Remove returns its error
RemoveReturn(t) ==
    /\ pc[t] = "r_ret"
    /\ mu' = [mu EXCEPT ![proc[t]].writer = 0]
    /\ ret' = [ret EXCEPT ![t] = Returned(t, <<>>, FALSE)]
    /\ loc' = [loc EXCEPT ![t] = NoLoc]
    /\ obs' = MarkPost(t)
    /\ pc' = [pc EXCEPT ![t] = "idle"]
    /\ UNCHANGED <<proc, dirExists, view, lock, tmp, req, hist>>

Remove(t) ==
    \/ RemoveMuLock(t) \/ RemoveOpenLock(t) \/ RemoveStat(t)
    \/ RemoveUnlink(t) \/ RemoveUnlockFile(t) \/ RemoveReturn(t)

Next ==
    /\ \E t \in Threads :
        \/ CreateViewBegin(t) \/ Save(t)
        \/ LoadBegin(t) \/ Load(t)
        \/ DropViewBegin(t) \/ Remove(t)
    /\ UNCHANGED pureVars

Spec == Init /\ [][Next]_vars

\* ---- Save then Load of one view by one caller --------------------------------
\* the store with no request running, as the sequential specifications keep it
StoreIdle ==
    /\ proc = [t \in Threads |-> 1]
    /\ dirExists = FALSE /\ view = Absent /\ lock = FALSE
    /\ tmp = [t \in Threads |-> Absent]
    /\ mu = [p \in Procs |-> [writer |-> 0, readers |-> {}]]
    /\ pc = [t \in Threads |-> "idle"]
    /\ req = [t \in Threads |-> NoReq]
    /\ loc = [t \in Threads |-> NoLoc]
    /\ ret = [t \in Threads |-> NoRet]
    /\ obs = [t \in Threads |-> NoObs]
    /\ hist = [clean |-> TRUE, faults |-> 0, drop |-> FALSE, creates |-> 0, created |-> 0]

SeqsUpTo(S, n) == UNION { [1..k -> S] : k \in 0..n }

\* the query strings handed to Save
QueryChars == {"a", " ", NL, CR}
RoundTripQueries == SeqsUpTo(QueryChars, MaxQueryLen)

InitRoundTrip ==
    /\ StoreIdle
    /\ arg \in RoundTripQueries
    /\ res = [file |-> Absent, out |-> <<>>, found |-> FALSE, err |-> NoErr]
    /\ at = "rt_save"

\* Save with no failing call: the temp file gets the query and the newline,
\* and is renamed to the view file
RoundTripSave ==
    /\ at = "rt_save"
    /\ res' = [res EXCEPT !.file = File(Finalize(arg))]
    /\ at' = "rt_load"
    /\ UNCHANGED <<arg, storeVars>>

\* Load of the file Save left: os.ReadFile, strings.TrimRight(data, "\r\n"),
\* and the "is empty" error for blank content
RoundTripLoad ==
    /\ at = "rt_load"
    /\ LET query == TrimRightCRLF(res.file.data) IN
         res' = IF IsBlank(query)
                THEN [res EXCEPT !.out = <<>>, !.found = FALSE, !.err = Errorf("is empty")]
                ELSE [res EXCEPT !.out = query, !.found = TRUE]
    /\ at' = "rt_done"
    /\ UNCHANGED <<arg, storeVars>>

NextRoundTrip == RoundTripSave \/ RoundTripLoad

SpecRoundTrip == InitRoundTrip /\ [][NextRoundTrip]_vars

\* ---- SELECT translation: strings and the syntax tree --------------------------
\* names, aliases and query texts are sequences of one-character strings
UpperChars == <<"A", "B", "C", "D", "E", "F", "G", "H", "I", "J", "K", "L", "M",
                "N", "O", "P", "Q", "R", "S", "T", "U", "V", "W", "X", "Y", "Z">>
LowerChars == <<"a", "b", "c", "d", "e", "f", "g", "h", "i", "j", "k", "l", "m",
                "n", "o", "p", "q", "r", "s", "t", "u", "v", "w", "x", "y", "z">>
DigitChars == {"0", "1", "2", "3", "4", "5", "6", "7", "8", "9"}
AlnumChars == {UpperChars[i] : i \in 1..26} \cup {LowerChars[i] : i \in 1..26} \cup DigitChars

\* strings.ToLower
ToLowerChar(c) ==
    IF \E i \in 1..26 : UpperChars[i] = c
    THEN LowerChars[CHOOSE i \in 1..26 : UpperChars[i] = c] ELSE c
ToLower(s) == [i \in 1..Len(s) |-> ToLowerChar(s[i])]

\* strings.Join
RECURSIVE JoinParts(_, _)
JoinParts(parts, sep) ==
    IF Len(parts) = 0 THEN <<>>
    ELSE IF Len(parts) = 1 THEN parts[1]
    ELSE parts[1] \o sep \o JoinParts(Tail(parts), sep)

\* strings.TrimSpace
RECURSIVE TrimSpace(_)
TrimSpace(s) ==
    IF Len(s) > 0 /\ IsSpace(s[1]) THEN TrimSpace(Tail(s))
    ELSE IF Len(s) > 0 /\ IsSpace(s[Len(s)]) THEN TrimSpace(SubSeq(s, 1, Len(s) - 1))
    ELSE s

\* regexp ^[A-Za-z0-9_.:/-]+$
safeBareLiteral(s) ==
    Len(s) > 0 /\ \A i \in 1..Len(s) : s[i] \in AlnumChars \cup {"_", ".", ":", "/", "-"}

\* regexp ^[A-Za-z0-9_.-]+$
safeFormatFieldLiteral(s) ==
    Len(s) > 0 /\ \A i \in 1..Len(s) : s[i] \in AlnumChars \cup {"_", ".", "-"}

\* quoteString: the value between double quotes, \ and " escaped
quoteString(val) ==
    LET esc(c) == IF c \in {"\\", "\""} THEN <<"\\", c>> ELSE <<c>>
        Body[i \in 0..Len(val)] == IF i = 0 THEN <<>> ELSE Body[i - 1] \o esc(val[i])
    IN <<"\"">> \o Body[Len(val)] \o <<"\"">>

formatFieldName(name) == IF safeBareLiteral(name) THEN name ELSE quoteString(name)

\* the characters strings.NewReplacer turns into "_"
ReplacedChars == {".", "-", ":", "/", "+", "*", "%", "^", "(", ")", ",", " ", "'", "\""}

\* strings.ReplaceAll(value, "__", "_"): one pass, left to right
RECURSIVE ReplaceAllDouble(_)
ReplaceAllDouble(s) ==
    IF Len(s) < 2 THEN s
    ELSE IF s[1] = "_" /\ s[2] = "_" THEN <<"_">> \o ReplaceAllDouble(SubSeq(s, 3, Len(s)))
    ELSE <<s[1]>> \o ReplaceAllDouble(Tail(s))

\* for strings.Contains(value, "__") { value = strings.ReplaceAll(...) }
RECURSIVE CollapseUnderscores(_)
CollapseUnderscores(s) ==
    IF \E i \in 1..(Len(s) - 1) : s[i] = "_" /\ s[i + 1] = "_"
    THEN CollapseUnderscores(ReplaceAllDouble(s)) ELSE s

\* strings.Trim(value, "_")
RECURSIVE TrimUnderscores(_)
TrimUnderscores(s) ==
    IF Len(s) > 0 /\ s[1] = "_" THEN TrimUnderscores(Tail(s))
    ELSE IF Len(s) > 0 /\ s[Len(s)] = "_" THEN TrimUnderscores(SubSeq(s, 1, Len(s) - 1))
    ELSE s

sanitizeAliasFromField(field) ==
    LET replaced == [i \in 1..Len(field) |->
                        IF field[i] \in ReplacedChars THEN "_" ELSE field[i]]
        orCol(value) == IF value = <<>> THEN <<"c", "o", "l">> ELSE value
    IN orCol(TrimUnderscores(CollapseUnderscores(ToLower(replaced))))

\* *TranslationError with its Code
TranslationError(c, m) == [kind |-> "TranslationError", code |-> c, msg |-> m]
StatusNotFound == 404

\* makeProjectionAlias: the alias the statement gives, else <prefix>_<sanitised field>
makeProjectionAlias(provided, prefix, field) ==
    LET built(alias) ==
            IF safeBareLiteral(alias)
            THEN [err |-> NoErr, alias |-> alias]
            ELSE [err |-> TranslationError(StatusBadRequest, "failed to build alias"),
                  alias |-> <<>>]
    IN IF provided # <<>>
       THEN IF safeBareLiteral(provided)
            THEN [err |-> NoErr, alias |-> provided]
            ELSE [err |-> TranslationError(StatusBadRequest, "alias contains unsupported characters"),
                  alias |-> <<>>]
       ELSE built(prefix \o <<"_">> \o sanitizeAliasFromField(field))

\* ast.Expr: one record shape for every node.  fn is the upper-cased last part
\* of a function name (what strings.ToUpper(fn.Name.Parts[len-1]) yields), args
\* the operands, hasOver / overOrder the OVER clause and its ORDER BY fields.
Node(k) == [k |-> k, fn |-> "", parts |-> <<>>, args |-> <<>>, distinct |-> FALSE,
            hasOver |-> FALSE, overOrder |-> <<>>, op |-> "", val |-> <<>>]
Identifier(parts) == [Node("Identifier") EXCEPT !.parts = parts]
StarExpr == Node("StarExpr")
NumericLiteral(val) == [Node("NumericLiteral") EXCEPT !.val = val]
StringLiteral(val) == [Node("StringLiteral") EXCEPT !.val = val]
BinaryExpr(op, left, right) == [Node("BinaryExpr") EXCEPT !.op = op, !.args = <<left, right>>]
FuncCall(fn, args) == [Node("FuncCall") EXCEPT !.fn = fn, !.args = args]
WindowCall(fn, args, distinct, order) ==
    [Node("FuncCall") EXCEPT !.fn = fn, !.args = args, !.distinct = distinct,
                             !.hasOver = TRUE, !.overOrder = order]

\* strings.ToLower(name) of the function names the statements use
LowerName(fn) ==
    CASE fn = "LOWER" -> <<"l", "o", "w", "e", "r">>
      [] fn = "UPPER" -> <<"u", "p", "p", "e", "r">>
      [] fn = "COUNT" -> <<"c", "o", "u", "n", "t">>
      [] fn = "SUM" -> <<"s", "u", "m">>
      [] fn = "ABS" -> <<"a", "b", "s">>
      [] OTHER -> <<"f">>

\* render.Render of an expression: the text as a sequence of pieces
RECURSIVE Render(_)
Render(e) ==
    LET RenderArgs[i \in 0..Len(e.args)] ==
            IF i = 0 THEN <<>>
            ELSE RenderArgs[i - 1] \o (IF i > 1 THEN <<",", " ">> ELSE <<>>) \o Render(e.args[i])
    IN CASE e.k = "Identifier" -> JoinParts(e.parts, <<".">>)
         [] e.k = "NumericLiteral" -> e.val
         [] e.k = "StringLiteral" -> <<"'">> \o e.val \o <<"'">>
         [] e.k = "BinaryExpr" ->
                <<"(">> \o Render(e.args[1]) \o <<" ", e.op, " ">> \o Render(e.args[2]) \o <<")">>
         [] e.k = "FuncCall" ->
                <<e.fn, "(">> \o (IF e.distinct THEN <<"DISTINCT", " ">> ELSE <<>>)
                \o RenderArgs[Len(e.args)] \o <<")">>
         [] OTHER -> <<"*">>

\* ---- SELECT translation: the visitor and its helpers ---------------------------
\* strconv / %d for the small numbers of the model
RECURSIVE Itoa(_)
Itoa(n) ==
    LET digit(d) == CASE d = 0 -> "0" [] d = 1 -> "1" [] d = 2 -> "2" [] d = 3 -> "3"
                      [] d = 4 -> "4" [] d = 5 -> "5" [] d = 6 -> "6" [] d = 7 -> "7"
                      [] d = 8 -> "8" [] OTHER -> "9"
    IN IF n < 10 THEN <<digit(n)>> ELSE Itoa(n \div 10) \o <<digit(n % 10)>>

\* one stage of the emitted program: op is the stage keyword, as the field it
\* writes, args its field list, calls the stats calls, text its expression and
\* tag what remains ("lc", "uc", "inner", ...)
Stage(op) == [op |-> op, as |-> <<>>, args |-> <<>>, calls |-> <<>>, text |-> <<>>, tag |-> ""]

\* selectTranslatorVisitor after the resets at the top of translateSimpleSelect.
\* Maps are sets of [key, name] records; aggSet / groupSet tell a nil map from an
\* empty one; filterComps holds filterComputations in filterOrder.
NewVisitor(ctes) ==
    [err |-> NoErr, availableCTEs |-> ctes, bindings |-> {}, baseAlias |-> <<>>,
     baseUsesPipeline |-> FALSE, basePipeline |-> <<>>, baseFilter |-> <<>>,
     pendingLeftFilter |-> <<>>, aggSet |-> FALSE, aggResults |-> {},
     groupSet |-> FALSE, groupExprAliases |-> {}, filterComps |-> <<>>,
     filterDelete |-> <<>>]

Fail(v, e) == [v EXCEPT !.err = e]
BadRequest(m) == TranslationError(StatusBadRequest, m)

\* map lookup in a set of [key, name] records
Has(map, key) == \E m \in map : m.key = key
Get(map, key) == (CHOOSE m \in map : m.key = key).name
Put(map, key, name) == {m \in map : m.key # key} \cup {[key |-> key, name |-> name]}

\* normalizeIdentifier: a leading binding is stripped, the rest joined by "."
normalizeIdentifier(v, ident) ==
    LET named(field) ==
            IF field = <<>> THEN [err |-> BadRequest("invalid identifier"), s |-> <<>>]
            ELSE [err |-> NoErr, s |-> formatFieldName(field)]
    IN IF Len(ident.parts) = 0 THEN [err |-> BadRequest("invalid identifier"), s |-> <<>>]
       ELSE named(JoinParts(IF Len(ident.parts) > 1 /\ ToLower(ident.parts[1]) \in v.bindings
                            THEN Tail(ident.parts) ELSE ident.parts, <<".">>))

\* rawFieldName: the same, but the field must match ^[A-Za-z0-9_.-]+$
rawFieldName(v, ident) ==
    LET named(field) ==
            IF ~safeFormatFieldLiteral(field)
            THEN [err |-> BadRequest("field cannot be used in scalar function"), s |-> <<>>]
            ELSE [err |-> NoErr, s |-> field]
    IN IF Len(ident.parts) = 0 THEN [err |-> BadRequest("invalid identifier"), s |-> <<>>]
       ELSE named(JoinParts(IF Len(ident.parts) > 1 /\ ToLower(ident.parts[1]) \in v.bindings
                            THEN Tail(ident.parts) ELSE ident.parts, <<".">>))

qualifierForIdentifier(v, ident) ==
    IF Len(ident.parts) = 0 THEN v.baseAlias
    ELSE IF ToLower(ident.parts[1]) \in v.bindings THEN ToLower(ident.parts[1])
    ELSE v.baseAlias

\* walkExpr collecting the qualifier of every identifier; "" is deleted
RECURSIVE aliasesForExpr(_, _)
aliasesForExpr(v, e) ==
    ((IF e.k = "Identifier" THEN {qualifierForIdentifier(v, e)} ELSE {})
     \cup UNION { aliasesForExpr(v, e.args[i]) : i \in 1..Len(e.args) })
    \ { <<>> }

isAliasOnly(aliases, alias) == aliases # {} /\ alias # <<>> /\ aliases = {alias}

\* ensureAliases: every qualifier used is an allowed one
ensureAliases(v, e, allowed) ==
    IF aliasesForExpr(v, e) \subseteq allowed THEN NoErr
    ELSE BadRequest("expression references unsupported alias")

ensureBaseAliasesOnly(v, e) == ensureAliases(v, e, {v.baseAlias})

isAggregateFunction(fn) == fn.k = "FuncCall" /\ fn.fn \in {"COUNT", "SUM", "AVG", "MIN", "MAX"}

\* aggregateKey: NAME(*) or NAME(lower-cased argument)
aggregateKey(name, argText) ==
    IF argText = <<>> \/ argText = <<"*">> THEN <<name, "(", "*", ")">>
    ELSE <<name, "(">> \o ToLower(argText) \o <<")">>

\* the argument of an aggregate call, as analyzeAggregate and
\* aggregateKeyFromFunc both compute it
aggregateArg(v, fn) ==
    IF fn.fn = "COUNT"
    THEN IF Len(fn.args) = 0 THEN [err |-> NoErr, s |-> <<"*">>]
         ELSE IF Len(fn.args) > 1 THEN [err |-> BadRequest("COUNT expects single argument"), s |-> <<>>]
         ELSE IF fn.args[1].k = "StarExpr" THEN [err |-> NoErr, s |-> <<"*">>]
         ELSE IF fn.args[1].k = "Identifier" THEN normalizeIdentifier(v, fn.args[1])
         ELSE [err |-> BadRequest("COUNT only supports identifiers or *"), s |-> <<>>]
    ELSE IF fn.fn \in {"SUM", "AVG", "MIN", "MAX"}
    THEN IF Len(fn.args) # 1 THEN [err |-> BadRequest("expects single argument"), s |-> <<>>]
         ELSE IF fn.args[1].k # "Identifier" THEN [err |-> BadRequest("only supports identifiers"), s |-> <<>>]
         ELSE normalizeIdentifier(v, fn.args[1])
    ELSE [err |-> BadRequest("unsupported aggregate"), s |-> <<>>]

aggregateKeyFromFunc(v, fn) ==
    LET keyed(a) == IF a.err # NoErr THEN a ELSE [err |-> NoErr, s |-> aggregateKey(fn.fn, a.s)]
    IN keyed(aggregateArg(v, fn))

\* lookupGroupExpr: the GROUP BY field of an expression, by rendered text
lookupGroupExpr(v, e) ==
    LET lookup(key) ==
            IF Has(v.groupExprAliases, key)
            THEN [ok |-> TRUE, name |-> Get(v.groupExprAliases, key)]
            ELSE [ok |-> FALSE, name |-> <<>>]
    IN IF ~v.groupSet THEN [ok |-> FALSE, name |-> <<>>] ELSE lookup(Render(e))

\* translateStringFunction for UPPER and LOWER, the string functions of the
\* statements of the model; pipes are the stages, alias the field they write
translateStringFunction(v, fn, alias) ==
    LET none == [supported |-> TRUE, err |-> NoErr, pipes |-> <<>>, alias |-> <<>>]
        format(raw, made) ==
            IF made.err # NoErr THEN [none EXCEPT !.err = made.err]
            ELSE [none EXCEPT
                    !.alias = made.alias,
                    !.pipes = << [Stage("format") EXCEPT
                                    !.as = made.alias, !.args = <<raw.s>>,
                                    !.tag = IF fn.fn = "LOWER" THEN "lc" ELSE "uc"] >>]
        field(raw) ==
            IF raw.err # NoErr THEN [none EXCEPT !.err = raw.err]
            ELSE format(raw, makeProjectionAlias(TrimSpace(alias), LowerName(fn.fn), raw.s))
    IN IF fn.fn \in {"UPPER", "LOWER"}
       THEN IF Len(fn.args) # 1
            THEN [none EXCEPT !.err = BadRequest("expects single argument")]
            ELSE IF fn.args[1].k # "Identifier"
            THEN [none EXCEPT !.err = BadRequest("only supports identifiers")]
            ELSE field(rawFieldName(v, fn.args[1]))
       ELSE [none EXCEPT !.supported = FALSE]

isMathOperator(op) == op \in {"+", "-", "*", "/", "%", "^"}

\* mathExprToString, with mathFuncToString for the one-argument functions
RECURSIVE mathExprToString(_, _)
mathExprToString(v, e) ==
    CASE e.k = "NumericLiteral" -> [err |-> NoErr, s |-> e.val]
      [] e.k = "Identifier" -> rawFieldName(v, e)
      [] e.k = "BinaryExpr" ->
            IF ~isMathOperator(e.op)
            THEN [err |-> BadRequest("unsupported operator in math expression"), s |-> <<>>]
            ELSE LET l == mathExprToString(v, e.args[1])
                     r == mathExprToString(v, e.args[2])
                 IN IF l.err # NoErr THEN l
                    ELSE IF r.err # NoErr THEN r
                    ELSE [err |-> NoErr,
                          s |-> <<"(">> \o l.s \o <<" ", e.op, " ">> \o r.s \o <<")">>]
      [] e.k = "FuncCall" ->
            IF e.fn \in {"ABS", "CEIL", "FLOOR", "EXP", "LN"}
            THEN IF Len(e.args) # 1
                 THEN [err |-> BadRequest("expects single argument"), s |-> <<>>]
                 ELSE LET a == mathExprToString(v, e.args[1]) IN
                      IF a.err # NoErr THEN a
                      ELSE [err |-> NoErr, s |-> LowerName(e.fn) \o <<"(">> \o a.s \o <<")">>]
            ELSE [err |-> BadRequest("unsupported function in math expression"), s |-> <<>>]
      [] OTHER -> [err |-> BadRequest("unsupported math expression"), s |-> <<>>]

\* translateMathProjection: one math stage writing the alias
translateMathProjection(v, e, alias) ==
    LET stage(m, made) ==
            IF made.err # NoErr THEN [err |-> made.err, pipe |-> Stage("math"), alias |-> <<>>]
            ELSE [err |-> NoErr, alias |-> made.alias,
                  pipe |-> [Stage("math") EXCEPT !.as = made.alias, !.text = m.s]]
        expression(m) ==
            IF m.err # NoErr THEN [err |-> m.err, pipe |-> Stage("math"), alias |-> <<>>]
            ELSE stage(m, makeProjectionAlias(TrimSpace(alias), <<"e", "x", "p", "r">>, m.s))
    IN expression(mathExprToString(v, e))

\* ---- SELECT translation: filters ----------------------------------------------
\* regexp ^[A-Za-z0-9_.:/-]*\*?[A-Za-z0-9_.:/-]*$
safeWildcardLiteral(s) ==
    /\ \A i \in 1..Len(s) : s[i] \in AlnumChars \cup {"_", ".", ":", "/", "-", "*"}
    /\ Cardinality({i \in 1..Len(s) : s[i] = "*"}) <= 1

formatString(val) ==
    IF val = <<>> THEN quoteString(val)
    ELSE IF safeBareLiteral(val) \/ safeWildcardLiteral(val) THEN val
    ELSE quoteString(val)

\* literalFromExpr followed by literalValue.format
literalFromExpr(e) ==
    CASE e.k = "StringLiteral" -> [err |-> NoErr, kind |-> "string", s |-> formatString(e.val)]
      [] e.k = "NumericLiteral" -> [err |-> NoErr, kind |-> "number", s |-> e.val]
      [] OTHER -> [err |-> BadRequest("unsupported literal"), kind |-> "", s |-> <<>>]

FilterExprPrefix == <<"_", "_", "f", "i", "l", "t", "e", "r", "_", "e", "x", "p", "r", "_">>

\* ensureFilterFunctionAlias: one computed field per rendered function call
ensureFilterFunctionAlias(v, fn) ==
    LET key == Render(fn)
        known == {i \in 1..Len(v.filterComps) : v.filterComps[i].key = key}
        aliasBase == FilterExprPrefix \o Itoa(Len(v.filterComps) + 1)
        register(t) ==
            IF ~t.supported
            THEN [v |-> v, err |-> BadRequest("function is not supported in filter"), s |-> <<>>]
            ELSE IF t.err # NoErr THEN [v |-> v, err |-> t.err, s |-> <<>>]
            ELSE [v |-> [v EXCEPT
                           !.filterComps = Append(@, [key |-> key, alias |-> formatFieldName(t.alias),
                                                      rawAlias |-> t.alias, pipes |-> t.pipes]),
                           !.filterDelete = IF \E i \in 1..Len(@) : @[i] = t.alias
                                            THEN @ ELSE Append(@, t.alias)],
                  err |-> NoErr, s |-> formatFieldName(t.alias)]
    IN IF isAggregateFunction(fn)
       THEN [v |-> v, err |-> BadRequest("aggregate function is not supported in this context"), s |-> <<>>]
       ELSE IF known # {}
       THEN [v |-> v, err |-> NoErr, s |-> v.filterComps[CHOOSE i \in known : TRUE].alias]
       ELSE register(translateStringFunction(v, fn, aliasBase))

\* fieldNameFromExpr: ok tells whether the expression names a field
fieldNameFromExpr(v, e) ==
    LET identifier(n) == [v |-> v, err |-> n.err, ok |-> n.err = NoErr, s |-> n.s]
        aggregate(key) ==
            IF key.err # NoErr THEN [v |-> v, err |-> key.err, ok |-> FALSE, s |-> <<>>]
            ELSE IF ~Has(v.aggResults, key.s)
            THEN [v |-> v, err |-> BadRequest("unknown aggregate referenced"), ok |-> FALSE, s |-> <<>>]
            ELSE [v |-> v, err |-> NoErr, ok |-> TRUE, s |-> Get(v.aggResults, key.s)]
        grouped(g) ==
            IF g.ok THEN [v |-> v, err |-> NoErr, ok |-> TRUE, s |-> formatFieldName(g.name)]
            ELSE [v |-> v, err |-> BadRequest("function is not supported in aggregated context"),
                  ok |-> FALSE, s |-> <<>>]
        computed(a) == [v |-> a.v, err |-> a.err, ok |-> a.err = NoErr, s |-> a.s]
    IN IF e.k = "Identifier" THEN identifier(normalizeIdentifier(v, e))
       ELSE IF e.k = "FuncCall"
       THEN IF v.aggSet
            THEN IF isAggregateFunction(e) THEN aggregate(aggregateKeyFromFunc(v, e))
                 ELSE grouped(lookupGroupExpr(v, e))
            ELSE computed(ensureFilterFunctionAlias(v, e))
       ELSE [v |-> v, err |-> NoErr, ok |-> FALSE, s |-> <<>>]

\* translateComparison with extractFieldAndLiteral: field on either side for
\* = and !=, field on the left for the ordering operators
translateComparison(v, left, right, op) ==
    LET sign == CASE op = "=" -> <<>>
                  [] op \in {"!=", "<>"} -> <<>>
                  [] OTHER -> <<op>>
        compare(f, flipped, lit) ==
            LET clause == f.s \o <<":">> \o sign \o lit.s IN
            IF f.err # NoErr THEN [v |-> f.v, err |-> f.err, s |-> <<>>]
            ELSE IF ~f.ok
            THEN [v |-> f.v, err |-> BadRequest("comparison requires identifier and literal"), s |-> <<>>]
            ELSE IF lit.err # NoErr THEN [v |-> f.v, err |-> lit.err, s |-> <<>>]
            ELSE IF op \in {"<", "<=", ">", ">="} /\ flipped
            THEN [v |-> f.v, err |-> BadRequest("comparisons must have identifier on left side"), s |-> <<>>]
            ELSE [v |-> f.v, err |-> NoErr,
                  s |-> IF op \in {"!=", "<>"} THEN <<"-">> \o clause ELSE clause]
        extract(l) ==
            IF l.ok \/ l.err # NoErr THEN compare(l, FALSE, literalFromExpr(right))
            ELSE compare(fieldNameFromExpr(v, right), TRUE, literalFromExpr(left))
    IN extract(fieldNameFromExpr(v, left))

\* translateExpr for the operators, identifiers, literals and calls of the
\* statements of the model
RECURSIVE translateExpr(_, _)
translateExpr(v, e) ==
    CASE e.k = "BinaryExpr" /\ e.op \in {"AND", "OR"} ->
            LET l == translateExpr(v, e.args[1])
                r == translateExpr(l.v, e.args[2])
            IN IF l.err # NoErr THEN l
               ELSE IF r.err # NoErr THEN r
               ELSE [v |-> r.v, err |-> NoErr,
                     s |-> <<"(">> \o l.s \o <<" ", e.op, " ">> \o r.s \o <<")">>]
      [] e.k = "BinaryExpr" /\ e.op \in {"=", "!=", "<>", ">", ">=", "<", "<="} ->
            translateComparison(v, e.args[1], e.args[2], e.op)
      [] e.k = "BinaryExpr" /\ e.op \notin {"AND", "OR", "=", "!=", "<>", ">", ">=", "<", "<="} ->
            [v |-> v, err |-> BadRequest("unsupported operator"), s |-> <<>>]
      [] e.k = "FuncCall" ->
            LET unsupported ==
                    [v |-> v, err |-> BadRequest("unsupported function expression in filter"),
                     s |-> <<>>]
                result(key) ==
                    IF key.err # NoErr THEN [v |-> v, err |-> key.err, s |-> <<>>]
                    ELSE IF Has(v.aggResults, key.s)
                    THEN [v |-> v, err |-> NoErr, s |-> Get(v.aggResults, key.s)]
                    ELSE unsupported
            IN IF v.aggSet THEN result(aggregateKeyFromFunc(v, e)) ELSE unsupported
      [] e.k = "Identifier" ->
            LET field(n) == [v |-> v, err |-> n.err, s |-> n.s] IN field(normalizeIdentifier(v, e))
      [] e.k = "StringLiteral" -> [v |-> v, err |-> NoErr, s |-> formatString(e.val)]
      [] e.k = "NumericLiteral" -> [v |-> v, err |-> NoErr, s |-> e.val]
      [] OTHER -> [v |-> v, err |-> BadRequest("unsupported expression"), s |-> <<>>]

\* ---- SELECT translation: FROM --------------------------------------------------
\* ast.TableExpr: one record shape; operands are the two sides of a JOIN, on its
\* condition and select the statement of a subquery (sequences of length 0 or 1
\* stand for nil or the value)
TableExpr(k) == [k |-> k, parts |-> <<>>, alias |-> <<>>, jtype |-> "", operands |-> <<>>,
                 on |-> <<>>, select |-> <<>>]
TableName(parts, alias) == [TableExpr("TableName") EXCEPT !.parts = parts, !.alias = alias]
SubqueryTable(select, alias) == [TableExpr("SubqueryTable") EXCEPT !.select = <<select>>, !.alias = alias]
JoinExpr(jtype, left, right, on) ==
    [TableExpr("JoinExpr") EXCEPT !.jtype = jtype, !.operands = <<left, right>>, !.on = <<on>>]

isSafeViewRune(c) == c \in AlnumChars \cup {"_", "-"}

\* sanitizeViewFileName: the file name of a view, lower-cased parts joined by "_"
sanitizeViewFileName(parts) ==
    LET sanitized(trimmed) ==
            IF \E i \in 1..Len(parts) : trimmed[i] = <<>>
            THEN [err |-> TranslationError(StatusBadRequest, "view name contains empty part"),
                  file |-> <<>>]
            ELSE IF \E i \in 1..Len(parts) : \E j \in 1..Len(trimmed[i]) :
                      ~isSafeViewRune(trimmed[i][j])
            THEN [err |-> TranslationError(StatusBadRequest, "invalid character in view name"),
                  file |-> <<>>]
            ELSE [err |-> NoErr,
                  file |-> JoinParts([i \in 1..Len(parts) |-> ToLower(trimmed[i])], <<"_">>)]
    IN IF Len(parts) = 0
       THEN [err |-> TranslationError(StatusBadRequest, "CREATE VIEW missing name"), file |-> <<>>]
       ELSE sanitized([i \in 1..Len(parts) |-> TrimSpace(parts[i])])

\* ViewStore.Load on a directory of regular files: views maps file names to
\* contents
LoadView(views, parts) ==
    LET read(query) ==
            IF IsBlank(query) THEN [err |-> Errorf("is empty"), found |-> FALSE, query |-> <<>>]
            ELSE [err |-> NoErr, found |-> TRUE, query |-> query]
        load(name) ==
            IF name.err # NoErr THEN [err |-> name.err, found |-> FALSE, query |-> <<>>]
            ELSE IF ~Has(views, name.file) THEN [err |-> NoErr, found |-> FALSE, query |-> <<>>]
            ELSE read(TrimRightCRLF(Get(views, name.file)))
    IN load(sanitizeViewFileName(parts))

Contains(s, c) == \E i \in 1..Len(s) : s[i] = c

\* newTableSpec: a catalog entry is a filter, or a pipeline when it holds "|"
newTableSpec(expr) ==
    LET spec(value) ==
            IF value = <<>> \/ value = <<"*">> THEN [filter |-> <<"*">>, pipeline |-> <<>>]
            ELSE IF Contains(value, "|") THEN [filter |-> <<>>, pipeline |-> value]
            ELSE [filter |-> value, pipeline |-> <<>>]
    IN spec(TrimSpace(expr))

\* where a table name of FROM or JOIN comes from: as a mutation, the view store
\* is asked before the CTEs of the statement
resolveSourceViewFirst(v, env, parts) ==
    LET nameLower == ToLower(parts[Len(parts)])
        none == [err |-> NoErr, src |-> "", query |-> <<>>, filter |-> <<>>, pipeline |-> <<>>]
        cte == [none EXCEPT !.src = "cte", !.query = Get(v.availableCTEs, nameLower)]
        catalog(spec) ==
            [none EXCEPT !.src = "table", !.filter = spec.filter, !.pipeline = spec.pipeline]
        table ==
            IF ~Has(env.tables, nameLower)
            THEN [none EXCEPT !.err = TranslationError(StatusNotFound,
                                         IF env.hasViewStore THEN "view not found"
                                         ELSE "table is not configured")]
            ELSE catalog(newTableSpec(Get(env.tables, nameLower)))
        other == IF Has(v.availableCTEs, nameLower) THEN cte ELSE table
        stored(load) ==
            IF load.err # NoErr THEN [none EXCEPT !.err = load.err]
            ELSE IF load.found THEN [none EXCEPT !.src = "view", !.query = load.query]
            ELSE other
    IN IF env.hasViewStore THEN stored(LoadView(env.views, parts)) ELSE other

\* where a table name of FROM or JOIN comes from (registerBaseTable and
\* processJoin run the same three lookups): the CTEs of the statement, then the
\* view store when one is configured, then the table catalog
resolveSource(v, env, parts) ==
    LET nameLower == ToLower(parts[Len(parts)])
        none == [err |-> NoErr, src |-> "", query |-> <<>>, filter |-> <<>>, pipeline |-> <<>>]
        cte == [none EXCEPT !.src = "cte", !.query = Get(v.availableCTEs, nameLower)]
        catalog(spec) ==
            [none EXCEPT !.src = "table", !.filter = spec.filter, !.pipeline = spec.pipeline]
        table ==
            IF ~Has(env.tables, nameLower)
            THEN [none EXCEPT !.err = TranslationError(StatusNotFound,
                                         IF env.hasViewStore THEN "view not found"
                                         ELSE "table is not configured")]
            ELSE catalog(newTableSpec(Get(env.tables, nameLower)))
        stored(load) ==
            IF load.err # NoErr THEN [none EXCEPT !.err = load.err]
            ELSE IF load.found THEN [none EXCEPT !.src = "view", !.query = load.query]
            ELSE table
    IN IF Has(v.availableCTEs, nameLower) THEN cte
       ELSE IF env.hasViewStore THEN stored(LoadView(env.views, parts))
       ELSE table

\* registerBinding: the empty alias is not registered
registerBinding(bindings, alias) ==
    IF ToLower(alias) = <<>> THEN bindings ELSE bindings \cup {ToLower(alias)}

\* registerBaseTable: the visitor after the base table is bound (err set on failure)
registerBaseTable(v, env, table) ==
    LET name == table.parts[Len(table.parts)]
        bind(r, aliasLower, bound) ==
            IF v.baseAlias # <<>> /\ v.baseAlias # aliasLower
            THEN Fail(v, BadRequest("multiple base tables are not supported"))
            ELSE IF r.err # NoErr THEN Fail(v, r.err)
            ELSE IF r.src = "cte"
            THEN [v EXCEPT !.baseAlias = aliasLower, !.baseUsesPipeline = TRUE,
                           !.basePipeline = r.query, !.bindings = bound]
            ELSE IF r.src = "view"
            THEN [v EXCEPT !.baseAlias = aliasLower, !.baseUsesPipeline = TRUE,
                           !.basePipeline = r.query, !.baseFilter = <<>>, !.bindings = bound]
            ELSE [v EXCEPT !.baseAlias = aliasLower, !.baseFilter = r.filter,
                           !.baseUsesPipeline = (r.pipeline # <<>>),
                           !.basePipeline = r.pipeline, !.bindings = bound]
        aliased(aliasLower) ==
            bind(resolveSource(v, env, table.parts), aliasLower,
                 registerBinding(registerBinding(v.bindings, aliasLower), ToLower(name)))
        trimmed(alias) == aliased(ToLower(IF alias = <<>> THEN name ELSE alias))
    IN IF Len(table.parts) = 0 THEN Fail(v, BadRequest("invalid table reference"))
       ELSE trimmed(TrimSpace(table.alias))

\* flattenAnd: the conjuncts of a condition, left to right
RECURSIVE flattenAnd(_)
flattenAnd(e) ==
    IF e.k = "BinaryExpr" /\ e.op = "AND" THEN flattenAnd(e.args[1]) \o flattenAnd(e.args[2])
    ELSE <<e>>

\* one conjunct of ON in extractJoinSpec: a join key, a left or right filter,
\* or an error
classifyJoinConjunct(v, e, rightAlias) ==
    LET none == [err |-> NoErr, kind |-> "", key |-> <<>>]
        l == e.args[1]
        r == e.args[2]
        bothIdent == e.op = "=" /\ l.k = "Identifier" /\ r.k = "Identifier"
        key(lf, rf) ==
            IF lf.err # NoErr THEN [none EXCEPT !.err = lf.err]
            ELSE IF rf.err # NoErr THEN [none EXCEPT !.err = rf.err]
            ELSE IF lf.s # rf.s
            THEN [none EXCEPT !.err = BadRequest("JOIN keys must use identical field names")]
            ELSE [none EXCEPT !.kind = "key", !.key = lf.s]
        filter(la, ra) ==
            IF isAliasOnly(la, v.baseAlias) /\ ra = {} THEN [none EXCEPT !.kind = "left"]
            ELSE IF isAliasOnly(ra, v.baseAlias) /\ la = {} THEN [none EXCEPT !.kind = "left"]
            ELSE IF isAliasOnly(la, rightAlias) /\ ra = {} THEN [none EXCEPT !.kind = "right"]
            ELSE IF isAliasOnly(ra, rightAlias) /\ la = {} THEN [none EXCEPT !.kind = "right"]
            ELSE IF isAliasOnly(la, v.baseAlias) /\ isAliasOnly(ra, rightAlias)
            THEN [none EXCEPT !.err = BadRequest("JOIN condition must be simple equality between tables")]
            ELSE [none EXCEPT !.err = BadRequest("unsupported JOIN condition")]
        qualified(lq, rq) ==
            IF bothIdent /\ ((lq = v.baseAlias /\ rq = rightAlias) \/ (lq = rightAlias /\ rq = v.baseAlias))
            THEN key(normalizeIdentifier(v, l), normalizeIdentifier(v, r))
            ELSE filter(aliasesForExpr(v, l), aliasesForExpr(v, r))
    IN IF e.k # "BinaryExpr" THEN [none EXCEPT !.err = BadRequest("unsupported JOIN condition")]
       ELSE qualified(qualifierForIdentifier(v, l), qualifierForIdentifier(v, r))

\* extractJoinSpec: keys and filters of the conjuncts up to the first error
extractJoinSpec(v, on, rightAlias) ==
    LET none == [err |-> NoErr, keys |-> <<>>, left |-> <<>>, right |-> <<>>]
        picked(all) == [err |-> NoErr, keys |-> all.keys, left |-> all.left, right |-> all.right]
        pick(p, kind, key, conjunct) ==
            CASE kind = "key" -> [p EXCEPT !.keys = Append(@, key)]
              [] kind = "left" -> [p EXCEPT !.left = Append(@, conjunct)]
              [] OTHER -> [p EXCEPT !.right = Append(@, conjunct)]
        classified(conjuncts, c) ==
            LET bad == {i \in 1..Len(conjuncts) : c[i].err # NoErr}
                Pick[i \in 0..Len(conjuncts)] ==
                    IF i = 0 THEN [keys |-> <<>>, left |-> <<>>, right |-> <<>>]
                    ELSE pick(Pick[i - 1], c[i].kind, c[i].key, conjuncts[i])
            IN IF bad # {} THEN [none EXCEPT !.err = c[CHOOSE i \in bad : \A j \in bad : i <= j].err]
               ELSE picked(Pick[Len(conjuncts)])
        flattened(conjuncts) ==
            classified(conjuncts,
                       [i \in 1..Len(conjuncts) |->
                          classifyJoinConjunct(v, conjuncts[i], rightAlias)])
    IN IF Len(on) = 0 THEN [none EXCEPT !.err = BadRequest("JOIN must include ON clause")]
       ELSE flattened(flattenAnd(on[1]))

\* ---- SELECT translation: aggregation -------------------------------------------
\* ast.SelectItem, ast.OrderItem and ast.SelectStatement; optional parts are
\* sequences of length 0 or 1
SelectItem(expr, alias) == [expr |-> expr, alias |-> alias]
OrderItem(expr, desc) == [expr |-> expr, desc |-> desc]
SelectStatement(columns, from) ==
    [with |-> <<>>, distinct |-> FALSE, columns |-> columns, from |-> <<from>>,
     where |-> <<>>, groupBy |-> <<>>, having |-> <<>>, orderBy |-> <<>>, limit |-> <<>>]

\* analyzeAggregate: key, stats call and result name of one aggregate column
analyzeAggregate(v, fn, alias) ==
    LET none == [err |-> NoErr, key |-> <<>>, statsCall |-> <<>>, resultName |-> <<>>]
        call(name, a) == name \o <<"(">> \o (IF a = <<"*">> THEN <<>> ELSE a) \o <<")">>
        analyzed(a, fnCall) ==
            IF a.err # NoErr THEN [none EXCEPT !.err = a.err]
            ELSE IF TrimSpace(alias) = <<>>
            THEN [none EXCEPT !.key = aggregateKey(fn.fn, a.s), !.statsCall = fnCall,
                              !.resultName = fnCall]
            ELSE [none EXCEPT !.key = aggregateKey(fn.fn, a.s),
                              !.statsCall = fnCall \o <<" ">> \o formatFieldName(TrimSpace(alias)),
                              !.resultName = formatFieldName(TrimSpace(alias))]
        withArg(a) == analyzed(a, call(LowerName(fn.fn), a.s))
    IN IF fn.distinct THEN [none EXCEPT !.err = BadRequest("DISTINCT aggregates are not supported")]
       ELSE withArg(aggregateArg(v, fn))

GroupPrefix == <<"g", "r", "o", "u", "p", "_">>

\* prepareGroupByField: the field a GROUP BY expression groups by, and the
\* stages computing it; index counts from 0
prepareGroupByField(v, e, index) ==
    LET alias == GroupPrefix \o Itoa(index + 1)
        identifier(n) == [err |-> n.err, field |-> n.s, pipes |-> <<>>]
        math(m) == [err |-> m.err, field |-> m.alias,
                    pipes |-> IF m.err = NoErr THEN <<m.pipe>> ELSE <<>>]
        function(s) == IF s.supported THEN [err |-> s.err, field |-> s.alias, pipes |-> s.pipes]
                       ELSE math(translateMathProjection(v, e, alias))
    IN CASE e.k = "Identifier" -> identifier(normalizeIdentifier(v, e))
         [] e.k = "FuncCall" ->
              IF isAggregateFunction(e)
              THEN [err |-> BadRequest("aggregate functions are not allowed in GROUP BY"),
                    field |-> <<>>, pipes |-> <<>>]
              ELSE function(translateStringFunction(v, e, alias))
         [] e.k \in {"BinaryExpr", "NumericLiteral"} -> math(translateMathProjection(v, e, alias))
         [] OTHER -> [err |-> BadRequest("unsupported GROUP BY expression"),
                      field |-> <<>>, pipes |-> <<>>]

\* the GROUP BY loop of buildStatsPipe: expressions are keyed by their rendered
\* text, a repeated expression reuses its field
groupByFields(v, groupBy) ==
    LET prepared(g, key, p) ==
            IF p.err # NoErr THEN [g EXCEPT !.err = p.err]
            ELSE [g EXCEPT !.fields = Append(@, p.field), !.pipes = @ \o p.pipes,
                           !.aliases = Put(@, key, p.field)]
        group(g, key, i) ==
            IF g.err # NoErr THEN g
            ELSE IF Has(g.aliases, key)
            THEN [g EXCEPT !.fields = Append(@, Get(g.aliases, key))]
            ELSE prepared(g, key, prepareGroupByField(v, groupBy[i], i - 1))
        G[i \in 0..Len(groupBy)] ==
            IF i = 0 THEN [err |-> NoErr, aliases |-> {}, fields |-> <<>>, pipes |-> <<>>]
            ELSE group(G[i - 1], Render(groupBy[i]), i)
    IN G[Len(groupBy)]

\* one column of the column loop of buildStatsPipe: an error, the early return
\* of SELECT *, or the aggregate of the column.  v carries groupExprAliases.
statsColumn(v, stmt, col, groupLookup) ==
    LET e == col.expr
        hasGroup == Len(stmt.groupBy) > 0
        none == [err |-> NoErr, star |-> FALSE, agg |-> <<>>]
        identifier(n) ==
            IF n.err # NoErr THEN [none EXCEPT !.err = n.err]
            ELSE IF n.s \notin groupLookup
            THEN [none EXCEPT !.err = BadRequest("column must appear in GROUP BY")]
            ELSE none
        aggregate(a) ==
            IF a.err # NoErr THEN [none EXCEPT !.err = a.err] ELSE [none EXCEPT !.agg = <<a>>]
    IN CASE e.k = "StarExpr" ->
              IF Len(stmt.columns) > 1
              THEN [none EXCEPT !.err = BadRequest("SELECT * cannot be mixed with other columns")]
              ELSE IF hasGroup
              THEN [none EXCEPT !.err = BadRequest("SELECT * not supported with GROUP BY")]
              ELSE [none EXCEPT !.star = TRUE]
         [] e.k = "Identifier" ->
              IF ~hasGroup THEN none ELSE identifier(normalizeIdentifier(v, e))
         [] e.k = "FuncCall" ->
              IF e.hasOver
              THEN IF hasGroup
                   THEN [none EXCEPT !.err = BadRequest("window functions are not supported with GROUP BY")]
                   ELSE none
              ELSE IF isAggregateFunction(e)
              THEN aggregate(analyzeAggregate(v, e, col.alias))
              ELSE IF hasGroup /\ ~lookupGroupExpr(v, e).ok
              THEN [none EXCEPT !.err = BadRequest("non-aggregate function must appear in GROUP BY")]
              ELSE none
         [] e.k \in {"BinaryExpr", "NumericLiteral"} ->
              IF hasGroup /\ ~lookupGroupExpr(v, e).ok
              THEN [none EXCEPT !.err = BadRequest("expression must appear in GROUP BY")]
              ELSE none
         [] OTHER ->
              IF hasGroup THEN [none EXCEPT !.err = BadRequest("unsupported select expression")]
              ELSE none

\* buildStatsPipe: the stages of the aggregation, whether the statement is
\* aggregated, and the visitor with groupExprAliases and aggResults set
buildStatsPipe(v, stmt) ==
    LET hasGroup == Len(stmt.groupBy) > 0
        columns(g, vg, c) ==
            LET stop == {i \in 1..Len(stmt.columns) : c[i].err # NoErr \/ c[i].star}
                Aggs[i \in 0..Len(stmt.columns)] ==
                    IF i = 0 THEN <<>> ELSE Aggs[i - 1] \o c[i].agg
                none == [v |-> vg, err |-> NoErr, pipes |-> <<>>, aggregated |-> FALSE]
                stats(aggregates) ==
                    LET Results[i \in 0..Len(aggregates)] ==
                            IF i = 0 THEN {}
                            ELSE Put(Results[i - 1], aggregates[i].key, aggregates[i].resultName)
                    IN IF Len(aggregates) = 0
                       THEN IF hasGroup
                            THEN [none EXCEPT !.err = BadRequest("GROUP BY requires aggregate expressions")]
                            ELSE none
                       ELSE [v |-> [vg EXCEPT !.aggSet = TRUE,
                                              !.aggResults = Results[Len(aggregates)]],
                             err |-> NoErr, aggregated |-> TRUE,
                             pipes |-> g.pipes \o
                                       << [Stage("stats") EXCEPT
                                             !.args = g.fields,
                                             !.calls = [i \in 1..Len(aggregates) |->
                                                          aggregates[i].statsCall]] >>]
            IN IF stop # {}
               THEN [none EXCEPT !.err = c[CHOOSE i \in stop : \A j \in stop : i <= j].err]
               ELSE stats(Aggs[Len(stmt.columns)])
        groups(g, vg) ==
            IF hasGroup /\ g.err # NoErr
            THEN [v |-> vg, err |-> g.err, pipes |-> <<>>, aggregated |-> FALSE]
            ELSE columns(g, vg,
                         [i \in 1..Len(stmt.columns) |->
                            statsColumn(vg, stmt, stmt.columns[i],
                                        {g.fields[j] : j \in 1..Len(g.fields)})])
        grouped(g) ==
            groups(g, [v EXCEPT !.groupSet = hasGroup,
                                !.groupExprAliases = IF hasGroup THEN g.aliases ELSE {}])
    IN grouped(groupByFields(v, stmt.groupBy))

\* ---- SELECT translation: projection, DISTINCT, ORDER BY, LIMIT -----------------
\* translateOrderBy: one sort stage
translateOrderBy(v, items, aggregated) ==
    LET clause(item) ==
            LET e == item.expr
                n == normalizeIdentifier(v, e)
                key == aggregateKeyFromFunc(v, e)
                dir == IF item.desc THEN <<" desc">> ELSE <<>>
            IN CASE e.k = "Identifier" -> [err |-> n.err, s |-> n.s \o dir]
                 [] e.k = "FuncCall" ->
                      IF ~aggregated
                      THEN [err |-> BadRequest("ORDER BY function requires aggregation"), s |-> <<>>]
                      ELSE IF key.err # NoErr THEN [err |-> key.err, s |-> <<>>]
                      ELSE IF ~Has(v.aggResults, key.s)
                      THEN [err |-> BadRequest("ORDER BY references unknown aggregate"), s |-> <<>>]
                      ELSE [err |-> NoErr, s |-> Get(v.aggResults, key.s) \o dir]
                 [] OTHER -> [err |-> BadRequest("ORDER BY expression not supported"), s |-> <<>>]
        c == [i \in 1..Len(items) |-> clause(items[i])]
        bad == {i \in 1..Len(items) : c[i].err # NoErr}
    IN IF bad # {}
       THEN [err |-> c[CHOOSE i \in bad : \A j \in bad : i <= j].err, pipe |-> Stage("sort")]
       ELSE [err |-> NoErr,
             pipe |-> [Stage("sort") EXCEPT !.args = [i \in 1..Len(items) |-> c[i].s]]]

\* translateWindowFunction as a mutation: DISTINCT inside the call is let through
translateWindowFunctionAnyDistinct(v, fn, alias) ==
    LET operand == fn.args[1]
        none == [err |-> NoErr, pipes |-> <<>>, alias |-> <<>>]
        running(n, made, order) ==
            IF n.err # NoErr THEN [none EXCEPT !.err = n.err]
            ELSE IF made.err # NoErr THEN [none EXCEPT !.err = made.err]
            ELSE IF \E i \in 1..Len(fn.overOrder) :
                      ensureBaseAliasesOnly(v, fn.overOrder[i].expr) # NoErr
            THEN [none EXCEPT !.err = BadRequest("expression references unsupported alias")]
            ELSE IF Len(fn.overOrder) > 0 /\ order.err # NoErr THEN [none EXCEPT !.err = order.err]
            ELSE [none EXCEPT
                    !.alias = made.alias,
                    !.pipes = (IF Len(fn.overOrder) > 0 THEN <<order.pipe>> ELSE <<>>) \o
                              << [Stage("running_stats") EXCEPT
                                    !.as = made.alias,
                                    !.calls = << LowerName(fn.fn) \o <<"(">> \o n.s \o <<")">> >>] >>]
        named(n) ==
            running(n, makeProjectionAlias(TrimSpace(alias), LowerName(fn.fn), n.s),
                    translateOrderBy(v, fn.overOrder, FALSE))
    IN IF fn.fn \notin {"SUM", "MIN", "MAX"}
       THEN [none EXCEPT !.err = BadRequest("window function is not supported")]
       ELSE IF Len(fn.args) # 1
       THEN [none EXCEPT !.err = BadRequest("window function expects single argument")]
       ELSE IF ensureBaseAliasesOnly(v, operand) # NoErr
       THEN [none EXCEPT !.err = ensureBaseAliasesOnly(v, operand)]
       ELSE IF operand.k # "Identifier"
       THEN [none EXCEPT !.err = BadRequest("window function requires identifier argument")]
       ELSE named(normalizeIdentifier(v, operand))

\* translateWindowFunction for SUM, MIN and MAX over an OVER clause without
\* PARTITION BY: an optional sort stage, then running_stats writing the alias
translateWindowFunction(v, fn, alias) ==
    LET operand == fn.args[1]
        none == [err |-> NoErr, pipes |-> <<>>, alias |-> <<>>]
        running(n, made, order) ==
            IF n.err # NoErr THEN [none EXCEPT !.err = n.err]
            ELSE IF made.err # NoErr THEN [none EXCEPT !.err = made.err]
            ELSE IF \E i \in 1..Len(fn.overOrder) :
                      ensureBaseAliasesOnly(v, fn.overOrder[i].expr) # NoErr
            THEN [none EXCEPT !.err = BadRequest("expression references unsupported alias")]
            ELSE IF Len(fn.overOrder) > 0 /\ order.err # NoErr THEN [none EXCEPT !.err = order.err]
            ELSE [none EXCEPT
                    !.alias = made.alias,
                    !.pipes = (IF Len(fn.overOrder) > 0 THEN <<order.pipe>> ELSE <<>>) \o
                              << [Stage("running_stats") EXCEPT
                                    !.as = made.alias,
                                    !.calls = << LowerName(fn.fn) \o <<"(">> \o n.s \o <<")">> >>] >>]
        named(n) ==
            running(n, makeProjectionAlias(TrimSpace(alias), LowerName(fn.fn), n.s),
                    translateOrderBy(v, fn.overOrder, FALSE))
    IN IF fn.distinct
       THEN [none EXCEPT !.err = BadRequest("DISTINCT window functions are not supported")]
       ELSE IF fn.fn \notin {"SUM", "MIN", "MAX"}
       THEN [none EXCEPT !.err = BadRequest("window function is not supported")]
       ELSE IF Len(fn.args) # 1
       THEN [none EXCEPT !.err = BadRequest("window function expects single argument")]
       ELSE IF ensureBaseAliasesOnly(v, operand) # NoErr
       THEN [none EXCEPT !.err = ensureBaseAliasesOnly(v, operand)]
       ELSE IF operand.k # "Identifier"
       THEN [none EXCEPT !.err = BadRequest("window function requires identifier argument")]
       ELSE named(normalizeIdentifier(v, operand))

\* one column of buildProjectionPipes: its computation stages, its rename pair
\* and its output field (identifiers other than CURRENT_TIMESTAMP / CURRENT_DATE)
projectColumn(v, col, aggregated) ==
    LET e == col.expr
        alias == TrimSpace(col.alias)
        none == [err |-> NoErr, computed |-> <<>>, rename |-> <<>>, field |-> <<>>]
        identifier(n) ==
            IF n.err # NoErr THEN [none EXCEPT !.err = n.err]
            ELSE IF alias # <<>>
            THEN [none EXCEPT !.rename = << n.s \o <<" as ">> \o formatFieldName(alias) >>,
                              !.field = <<formatFieldName(alias)>>]
            ELSE [none EXCEPT !.field = <<n.s>>]
        window(w) ==
            IF w.err # NoErr THEN [none EXCEPT !.err = w.err]
            ELSE [none EXCEPT !.computed = w.pipes, !.field = <<formatFieldName(w.alias)>>]
        aggregate(key) ==
            IF key.err # NoErr THEN [none EXCEPT !.err = key.err]
            ELSE [none EXCEPT !.field = << IF Has(v.aggResults, key.s)
                                           THEN Get(v.aggResults, key.s) ELSE key.s >>]
        grouped(g, unsupported) ==
            IF ~g.ok THEN [none EXCEPT !.err = BadRequest(unsupported)]
            ELSE [none EXCEPT
                    !.rename = IF alias # <<>> /\ formatFieldName(alias) # g.name
                               THEN << g.name \o <<" as ">> \o formatFieldName(alias) >> ELSE <<>>,
                    !.field = << IF alias # <<>> THEN formatFieldName(alias) ELSE g.name >>]
        math(m) ==
            IF m.err # NoErr THEN [none EXCEPT !.err = m.err]
            ELSE [none EXCEPT !.computed = <<m.pipe>>, !.field = <<formatFieldName(m.alias)>>]
        function(s) ==
            IF ~s.supported THEN math(translateMathProjection(v, e, col.alias))
            ELSE IF s.err # NoErr THEN [none EXCEPT !.err = s.err]
            ELSE [none EXCEPT !.computed = s.pipes, !.field = <<formatFieldName(s.alias)>>]
    IN CASE e.k = "Identifier" -> identifier(normalizeIdentifier(v, e))
         [] e.k = "FuncCall" ->
              IF e.hasOver
              THEN IF aggregated
                   THEN [none EXCEPT !.err = BadRequest("window functions are not supported with GROUP BY")]
                   ELSE window(translateWindowFunction(v, e, col.alias))
              ELSE IF aggregated /\ isAggregateFunction(e)
              THEN IF alias # <<>> THEN [none EXCEPT !.field = <<formatFieldName(alias)>>]
                   ELSE aggregate(aggregateKeyFromFunc(v, e))
              ELSE IF aggregated
              THEN grouped(lookupGroupExpr(v, e), "unsupported function in aggregated select")
              ELSE function(translateStringFunction(v, e, col.alias))
         [] e.k \in {"BinaryExpr", "NumericLiteral"} ->
              IF aggregated
              THEN grouped(lookupGroupExpr(v, e), "unsupported expression in aggregated select")
              ELSE math(translateMathProjection(v, e, col.alias))
         [] e.k = "StarExpr" ->
              [none EXCEPT !.err = BadRequest("SELECT * cannot be combined with other projections")]
         [] OTHER -> [none EXCEPT !.err = BadRequest("unsupported projection expression")]

\* the stages buildProjectionPipes emits from what its column loop collected, as
\* a mutation: one fields stage per column
projectionStagesPerColumn(computed, renamePairs, fields, aggregated) ==
    computed
    \o (IF Len(renamePairs) > 0 THEN << [Stage("rename") EXCEPT !.args = renamePairs] >> ELSE <<>>)
    \o (IF aggregated THEN <<>>
        ELSE [i \in 1..Len(fields) |-> [Stage("fields") EXCEPT !.args = <<fields[i]>>]])

\* the stages buildProjectionPipes emits from what its column loop collected:
\* the computations, one rename if any pair, one fields unless aggregated
projectionStages(computed, renamePairs, fields, aggregated) ==
    computed
    \o (IF Len(renamePairs) > 0 THEN << [Stage("rename") EXCEPT !.args = renamePairs] >> ELSE <<>>)
    \o (IF Len(fields) > 0 /\ ~aggregated THEN << [Stage("fields") EXCEPT !.args = fields] >> ELSE <<>>)

\* buildProjectionPipes: SELECT * projects nothing
buildProjectionPipes(v, columns, aggregated) ==
    LET stages(all) ==
            [err |-> NoErr, fields |-> all.fields,
             pipes |-> projectionStages(all.computed, all.rename, all.fields, aggregated)]
        projected(c) ==
            LET bad == {i \in 1..Len(columns) : c[i].err # NoErr}
                Acc[i \in 0..Len(columns)] ==
                    IF i = 0 THEN [computed |-> <<>>, rename |-> <<>>, fields |-> <<>>]
                    ELSE [computed |-> Acc[i - 1].computed \o c[i].computed,
                          rename |-> Acc[i - 1].rename \o c[i].rename,
                          fields |-> Acc[i - 1].fields \o c[i].field]
            IN IF bad # {}
               THEN [err |-> c[CHOOSE i \in bad : \A j \in bad : i <= j].err,
                     pipes |-> <<>>, fields |-> <<>>]
               ELSE stages(Acc[Len(columns)])
    IN IF Len(columns) = 1 /\ columns[1].expr.k = "StarExpr"
       THEN [err |-> NoErr, pipes |-> <<>>, fields |-> <<>>]
       ELSE projected([i \in 1..Len(columns) |-> projectColumn(v, columns[i], aggregated)])

\* buildDistinctPipe: uniq by the projected fields
buildDistinctPipe(fields, aggregated) ==
    IF aggregated
    THEN [err |-> BadRequest("DISTINCT with aggregates is not supported"), pipe |-> Stage("uniq")]
    ELSE IF Len(fields) = 0
    THEN [err |-> BadRequest("DISTINCT requires explicit column list"), pipe |-> Stage("uniq")]
    ELSE [err |-> NoErr, pipe |-> [Stage("uniq") EXCEPT !.args = fields]]

\* ast.LimitClause: count and offset are sequences of length 0 or 1
LimitClause(count, offset) == [count |-> count, offset |-> offset]

\* translateLimit: offset before limit
translateLimit(limit) ==
    LET off == literalFromExpr(limit.offset[1])
        cnt == literalFromExpr(limit.count[1])
    IN IF Len(limit.offset) > 0 /\ (off.err # NoErr \/ off.kind # "number")
       THEN [err |-> BadRequest("OFFSET expects numeric literal"), pipes |-> <<>>]
       ELSE IF Len(limit.count) > 0 /\ (cnt.err # NoErr \/ cnt.kind # "number")
       THEN [err |-> BadRequest("LIMIT expects numeric literal"), pipes |-> <<>>]
       ELSE IF Len(limit.offset) = 0 /\ Len(limit.count) = 0
       THEN [err |-> BadRequest("LIMIT/OFFSET clause is empty"), pipes |-> <<>>]
       ELSE [err |-> NoErr,
             pipes |-> (IF Len(limit.offset) > 0
                        THEN << [Stage("offset") EXCEPT !.text = off.s] >> ELSE <<>>)
                       \o (IF Len(limit.count) > 0
                           THEN << [Stage("limit") EXCEPT !.text = cnt.s] >> ELSE <<>>)]

\* ---- SELECT translation: the statement -----------------------------------------
\* the text of one stage, as the fmt.Sprintf or concatenation that builds it
StageText(st) ==
    CASE st.op = "format" ->
            <<"format \"<", st.tag, ":">> \o st.args[1] \o <<">\" as ">> \o st.as
      [] st.op = "math" -> <<"math ">> \o st.text \o <<" as ">> \o st.as
      [] st.op = "filter" -> <<"filter ">> \o st.text
      [] st.op = "join" ->
            <<"join by (">> \o JoinParts(st.args, <<", ">>) \o <<") (">> \o st.text \o <<")">>
            \o (IF st.tag = "inner" THEN <<" inner">> ELSE <<>>)
      [] st.op = "stats" ->
            <<"stats">>
            \o (IF Len(st.args) > 0 THEN <<" by (">> \o JoinParts(st.args, <<", ">>) \o <<")">> ELSE <<>>)
            \o <<" ">> \o JoinParts(st.calls, <<", ">>)
      [] st.op = "running_stats" -> <<"running_stats ">> \o st.calls[1] \o <<" as ">> \o st.as
      [] st.op \in {"uniq", "sort"} -> <<st.op, " by (">> \o JoinParts(st.args, <<", ">>) \o <<")">>
      [] st.op \in {"offset", "limit"} -> <<st.op, " ">> \o st.text
      [] OTHER -> <<st.op, " ">> \o JoinParts(st.args, <<", ">>)

\* the result string of translateSimpleSelect: base, then the stages after " | "
ProgramText(base, pipes) ==
    IF Len(pipes) = 0 THEN base
    ELSE base \o <<" | ">> \o JoinParts([i \in 1..Len(pipes) |-> StageText(pipes[i])], <<" | ">>)

\* "*" for no filter, the filter itself for one, else the conjunction
combineFilters(parts) ==
    IF Len(parts) = 0 THEN <<"*">>
    ELSE IF Len(parts) = 1 THEN parts[1]
    ELSE <<"(">> \o JoinParts(parts, <<" AND ">>) \o <<")">>

\* ensureAliases then translateExpr over a list of expressions, left to right;
\* the visitor is threaded through and the first error stops the loop
translateAll(v, exprs, allowed) ==
    LET translated(p, t) ==
            IF t.err # NoErr THEN [p EXCEPT !.err = t.err]
            ELSE [v |-> t.v, err |-> NoErr, parts |-> Append(p.parts, t.s)]
        aliased(p, a, e) ==
            IF a # NoErr THEN [p EXCEPT !.err = a] ELSE translated(p, translateExpr(p.v, e))
        next(p, e) ==
            IF p.err # NoErr THEN p ELSE aliased(p, ensureAliases(p.v, e, allowed), e)
        T[i \in 0..Len(exprs)] ==
            IF i = 0 THEN [v |-> v, err |-> NoErr, parts |-> <<>>]
            ELSE next(T[i - 1], exprs[i])
    IN T[Len(exprs)]

RECURSIVE translateSimpleSelect(_, _, _)

\* the right-hand side of a JOIN: its alias, its query and, for a catalog
\* table without pipeline, its filters
joinRightSide(v, env, rt) ==
    LET none == [err |-> NoErr, v |-> v, alias |-> <<>>, query |-> <<>>, simple |-> FALSE,
                 filters |-> <<>>]
        name == rt.parts[Len(rt.parts)]
        given == TrimSpace(rt.alias)
        rightAlias == ToLower(IF given = <<>> /\ rt.k = "TableName" THEN name ELSE given)
        table(r, bound) ==
            IF r.err # NoErr THEN [none EXCEPT !.err = r.err]
            ELSE IF r.src \in {"cte", "view"}
            THEN [none EXCEPT !.v = bound, !.alias = rightAlias, !.query = r.query]
            ELSE IF given = <<>>
            THEN [none EXCEPT !.err = BadRequest("JOINed table requires alias")]
            ELSE IF r.pipeline # <<>>
            THEN [none EXCEPT !.v = bound, !.alias = rightAlias, !.query = r.pipeline]
            ELSE [none EXCEPT !.v = bound, !.alias = rightAlias, !.simple = TRUE,
                              !.filters = IF r.filter # <<>> /\ r.filter # <<"*">>
                                          THEN <<r.filter>> ELSE <<>>]
        subquery(sub) ==
            IF sub.err # NoErr
            THEN [none EXCEPT !.err = BadRequest("failed to translate JOIN subquery")]
            ELSE [none EXCEPT !.v = [v EXCEPT !.bindings = registerBinding(@, rightAlias)],
                              !.alias = rightAlias, !.query = ProgramText(sub.base, sub.pipes)]
    IN CASE rt.k = "TableName" ->
              IF Len(rt.parts) = 0 THEN [none EXCEPT !.err = BadRequest("invalid JOIN table")]
              ELSE IF rightAlias \in v.bindings
              THEN [none EXCEPT !.err = BadRequest("duplicate table alias")]
              ELSE table(resolveSource(v, env, rt.parts),
                         [v EXCEPT !.bindings = registerBinding(registerBinding(@, rightAlias),
                                                                ToLower(name))])
         [] rt.k = "SubqueryTable" ->
              IF given = <<>> THEN [none EXCEPT !.err = BadRequest("JOIN subquery requires alias")]
              ELSE IF rightAlias \in v.bindings
              THEN [none EXCEPT !.err = BadRequest("duplicate table alias")]
              ELSE subquery(translateSimpleSelect(env, v.availableCTEs, rt.select[1]))
         [] OTHER -> [none EXCEPT !.err = BadRequest("unsupported JOIN right side")]

\* processJoin: the base table is the left side, the right side becomes one
\* join stage
processJoin(v, env, join) ==
    LET left == join.operands[1]
        failed(vv, e) == [v |-> Fail(vv, e), pipes |-> <<>>]
        joined(rs, js, rf) ==
            LET combined == combineFilters(rs.filters \o rf.parts)
                rightQuery == IF rs.simple THEN combined
                              ELSE IF combined # <<"*">> THEN rs.query \o <<" | filter ">> \o combined
                              ELSE rs.query
            IN IF rf.err # NoErr THEN failed(rf.v, rf.err)
               ELSE [v |-> rf.v,
                     pipes |-> << [Stage("join") EXCEPT
                                     !.args = js.keys, !.text = rightQuery,
                                     !.tag = IF join.jtype = "INNER" THEN "inner" ELSE ""] >>]
        conditions(rs, js) ==
            IF js.err # NoErr THEN failed(rs.v, js.err)
            ELSE IF Len(js.keys) = 0
            THEN failed(rs.v, BadRequest("JOIN requires equality condition between tables"))
            ELSE joined(rs, js,
                        translateAll([rs.v EXCEPT !.pendingLeftFilter = @ \o js.left],
                                     js.right, {rs.alias}))
        right(vl, rs) ==
            IF rs.err # NoErr THEN failed(vl, rs.err)
            ELSE conditions(rs, extractJoinSpec(rs.v, join.on, rs.alias))
        base(vl) ==
            IF vl.err # NoErr THEN [v |-> vl, pipes |-> <<>>]
            ELSE right(vl, joinRightSide(vl, env, join.operands[2]))
    IN IF join.jtype \notin {"INNER", "LEFT"}
       THEN failed(v, BadRequest("only INNER and LEFT JOIN are supported"))
       ELSE IF left.k # "TableName"
       THEN failed(v, BadRequest("JOIN left side must be table reference"))
       ELSE base(registerBaseTable(v, env, left))

\* processFrom: a table name or a JOIN, nothing else
processFrom(v, env, from) ==
    IF Len(from) = 0 THEN [v |-> Fail(v, BadRequest("FROM clause is required")), pipes |-> <<>>]
    ELSE IF from[1].k = "TableName" THEN [v |-> registerBaseTable(v, env, from[1]), pipes |-> <<>>]
    ELSE IF from[1].k = "JoinExpr" THEN processJoin(v, env, from[1])
    ELSE [v |-> Fail(v, BadRequest("unsupported FROM clause")), pipes |-> <<>>]

\* the WITH clause of translateSimpleSelect: each CTE is translated with the
\* CTEs before it and registered under its lower-cased last name part
registerCTEs(env, ctes, with) ==
    LET translated(p, name, q) ==
            IF q.err # NoErr THEN [p EXCEPT !.err = BadRequest("failed to translate CTE")]
            ELSE [p EXCEPT !.ctes = Put(@, name, ProgramText(q.base, q.pipes))]
        register(p, cte) ==
            IF p.err # NoErr THEN p
            ELSE IF Len(cte.parts) = 0 THEN [p EXCEPT !.err = BadRequest("CTE missing name")]
            ELSE IF Has(p.ctes, ToLower(cte.parts[Len(cte.parts)]))
            THEN [p EXCEPT !.err = BadRequest("duplicate CTE name")]
            ELSE translated(p, ToLower(cte.parts[Len(cte.parts)]),
                            translateSimpleSelect(env, p.ctes, cte.select))
        W[i \in 0..Len(with)] ==
            IF i = 0 THEN [err |-> NoErr, ctes |-> ctes] ELSE register(W[i - 1], with[i])
    IN W[Len(with)]

\* the base and the filter stages of the program: a pipeline base or computed
\* filter fields move the filter into a stage of its own
filterStages(v, filter) ==
    LET pre == JoinParts([i \in 1..Len(v.filterComps) |-> v.filterComps[i].pipes], <<>>)
    IN IF v.baseUsesPipeline \/ Len(pre) > 0
       THEN [base |-> IF v.baseUsesPipeline THEN v.basePipeline ELSE <<"*">>,
             pipes |-> pre
                       \o (IF filter # <<"*">>
                           THEN << [Stage("filter") EXCEPT !.text = filter, !.tag = "where"] >>
                           ELSE <<>>)
                       \o (IF Len(v.filterDelete) > 0
                           THEN << [Stage("delete") EXCEPT !.args = v.filterDelete] >> ELSE <<>>)]
       ELSE [base |-> filter, pipes |-> <<>>]

\* the HAVING step of translateSimpleSelect, as a mutation: HAVING is
\* translated whether or not the statement is aggregated
havingPipesUnchecked(v, having, aggregated) ==
    LET filter(t) ==
            IF t.err # NoErr THEN [err |-> t.err, pipes |-> <<>>]
            ELSE [err |-> NoErr,
                  pipes |-> << [Stage("filter") EXCEPT !.text = t.s, !.tag = "having"] >>]
    IN IF Len(having) = 0 THEN [err |-> NoErr, pipes |-> <<>>]
       ELSE filter(translateExpr(v, having[1]))

\* the HAVING step of translateSimpleSelect: a filter stage over the results of
\* the aggregation
havingPipes(v, having, aggregated) ==
    LET filter(t) ==
            IF t.err # NoErr THEN [err |-> t.err, pipes |-> <<>>]
            ELSE [err |-> NoErr,
                  pipes |-> << [Stage("filter") EXCEPT !.text = t.s, !.tag = "having"] >>]
    IN IF Len(having) = 0 THEN [err |-> NoErr, pipes |-> <<>>]
       ELSE IF ~aggregated
       THEN [err |-> BadRequest("HAVING requires GROUP BY with aggregates"), pipes |-> <<>>]
       ELSE filter(translateExpr(v, having[1]))

\* translateSimpleSelect: the base and the stages of the program, or the error
translateSimpleSelect(env, ctes, stmt) ==
    LET failed(e) == [err |-> e, base |-> <<>>, pipes |-> <<>>]
        program(f, fs, st, hv, pr, di, ob, li) ==
            IF stmt.distinct /\ di.err # NoErr THEN failed(di.err)
            ELSE IF Len(stmt.orderBy) > 0 /\ ob.err # NoErr THEN failed(ob.err)
            ELSE IF Len(stmt.limit) > 0 /\ li.err # NoErr THEN failed(li.err)
            ELSE [err |-> NoErr, base |-> fs.base,
                  pipes |-> fs.pipes \o f.pipes \o st.pipes \o hv.pipes \o pr.pipes
                            \o (IF stmt.distinct THEN <<di.pipe>> ELSE <<>>)
                            \o (IF Len(stmt.orderBy) > 0 THEN <<ob.pipe>> ELSE <<>>)
                            \o (IF Len(stmt.limit) > 0 THEN li.pipes ELSE <<>>)]
        projected(f, fs, st, hv, pr) ==
            IF hv.err # NoErr THEN failed(hv.err)
            ELSE IF pr.err # NoErr THEN failed(pr.err)
            ELSE program(f, fs, st, hv, pr,
                         buildDistinctPipe(pr.fields, st.aggregated),
                         translateOrderBy(st.v, stmt.orderBy, st.aggregated),
                         translateLimit(stmt.limit[1]))
        aggregated(f, fs, st) ==
            IF st.err # NoErr THEN failed(st.err)
            ELSE projected(f, fs, st,
                           havingPipes(st.v, stmt.having, st.aggregated),
                           buildProjectionPipes(st.v, stmt.columns, st.aggregated))
        filtered(f, wh) ==
            LET baseFilter == TrimSpace(f.v.baseFilter)
                filters == (IF baseFilter # <<>> /\ baseFilter # <<"*">>
                            THEN <<baseFilter>> ELSE <<>>) \o wh.parts
            IN IF wh.err # NoErr THEN failed(wh.err)
               ELSE aggregated(f, filterStages(wh.v, combineFilters(filters)),
                               buildStatsPipe(wh.v, stmt))
        from(f) ==
            IF f.v.err # NoErr THEN failed(f.v.err)
            ELSE filtered(f, translateAll(f.v, stmt.where \o f.v.pendingLeftFilter,
                                          {f.v.baseAlias}))
        ctesRegistered(w) ==
            IF w.err # NoErr THEN failed(w.err)
            ELSE from(processFrom(NewVisitor(w.ctes), env, stmt.from))
    IN ctesRegistered(registerCTEs(env, ctes, stmt.with))

\* ---- SELECT translation: one statement translated against one provider ----------
MaxColumns == 2

CTE(parts, select) == [parts |-> parts, select |-> select]
Provider(hasViewStore, views, tables) ==
    [hasViewStore |-> hasViewStore, views |-> views, tables |-> tables]

Ident(c) == Identifier(<< <<c>> >>)
Qualified(q, c) == Identifier(<< <<q>>, <<c>> >>)
Star == SelectItem(StarExpr, <<>>)
SelectStar(name) == SelectStatement(<<Star>>, TableName(<< name >>, <<>>))

\* the texts behind the names: table r, table t as a filter or as a pipeline,
\* the view files t and d_t, and the CTE t defined over table r
TextR == <<"r", ":", "1">>
TextT == <<"t", ":", "1">>
PipeT == <<"*", " ", "|", " ", "f">>
ViewT == <<"v", ":", "1", " ", "|", " ", "g", NL>>
ViewDT == <<"w", ":", "1", NL>>
BlankView == <<" ", NL>>
Catalogs ==
    { {[key |-> <<"r">>, name |-> TextR]},
      {[key |-> <<"r">>, name |-> TextR], [key |-> <<"t">>, name |-> TextT]},
      {[key |-> <<"r">>, name |-> TextR], [key |-> <<"t">>, name |-> PipeT]} }
ViewDirs ==
    { {}, {[key |-> <<"t">>, name |-> ViewT]}, {[key |-> <<"t">>, name |-> BlankView]},
      {[key |-> <<"d", "_", "t">>, name |-> ViewDT]},
      {[key |-> <<"t">>, name |-> ViewT], [key |-> <<"d", "_", "t">>, name |-> ViewDT]} }
Providers ==
    { Provider(h, vs, ts) : h \in BOOLEAN, vs \in ViewDirs, ts \in Catalogs }
WithClauses == { <<>>, << CTE(<< <<"t">> >>, SelectStar(<<"r">>)) >>,
                 << CTE(<< <<"T">> >>, SelectStar(<<"r">>)) >> }

\* FROM t, FROM T, FROM d.t, FROM r a JOIN <right> ON a.k = <alias>.k, and
\* FROM (SELECT * FROM t) with and without alias
TableRefs == { TableName(<< <<"t">> >>, <<>>), TableName(<< <<"T">> >>, <<>>),
               TableName(<< <<"d">>, <<"t">> >>, <<>>) }
JoinRights == { [right |-> TableName(<< <<"t">> >>, <<"b">>), alias |-> "b"],
                [right |-> TableName(<< <<"t">> >>, <<>>), alias |-> "t"],
                [right |-> TableName(<< <<"d">>, <<"T">> >>, <<"b">>), alias |-> "b"],
                [right |-> SubqueryTable(SelectStar(<<"t">>), <<"b">>), alias |-> "b"],
                [right |-> SubqueryTable(SelectStar(<<"t">>), <<>>), alias |-> "b"] }
Joins == { JoinExpr(jt, TableName(<< <<"r">> >>, <<"a">>), j.right,
                    BinaryExpr("=", Qualified("a", "k"), Qualified(j.alias, "k")))
           : jt \in {"INNER", "LEFT", "RIGHT"}, j \in JoinRights }
Subqueries == { SubqueryTable(SelectStar(<<"t">>), <<"b">>), SubqueryTable(SelectStar(<<"t">>), <<>>) }
FromClauses == TableRefs \cup Joins \cup Subqueries

TailClauses ==
    { [orderBy |-> <<>>, limit |-> <<>>],
      [orderBy |-> <<OrderItem(Ident("u"), FALSE)>>,
       limit |-> <<LimitClause(<<NumericLiteral(<<"1">>)>>, <<>>)>>] }

\* SELECT * FROM <from> [WHERE u = 1] [ORDER BY u LIMIT 1] under every provider
ResolveInputs ==
    { [stmt |-> [SelectStatement(<<Star>>, f) EXCEPT
                   !.with = w, !.where = wh, !.orderBy = tl.orderBy, !.limit = tl.limit],
       env |-> p]
      : f \in FromClauses, w \in WithClauses, p \in Providers,
        wh \in { <<>>, <<BinaryExpr("=", Ident("u"), NumericLiteral(<<"1">>))>> },
        tl \in TailClauses }

\* the select items: *, u, u AS x, LOWER(u), LOWER(U), LOWER(u) AS x,
\* COUNT(*) AS c, SUM(u) OVER (ORDER BY k), SUM(DISTINCT u) OVER (ORDER BY k)
ColumnItems ==
    { Star, SelectItem(Ident("u"), <<>>), SelectItem(Ident("u"), <<"x">>),
      SelectItem(FuncCall("LOWER", <<Ident("u")>>), <<>>),
      SelectItem(FuncCall("LOWER", <<Ident("U")>>), <<>>),
      SelectItem(FuncCall("LOWER", <<Ident("u")>>), <<"x">>),
      SelectItem(FuncCall("COUNT", <<StarExpr>>), <<"c">>),
      SelectItem(WindowCall("SUM", <<Ident("u")>>, FALSE, <<OrderItem(Ident("k"), FALSE)>>), <<>>),
      SelectItem(WindowCall("SUM", <<Ident("u")>>, TRUE, <<OrderItem(Ident("k"), FALSE)>>), <<>>) }
ColumnLists == SeqsUpTo(ColumnItems, MaxColumns) \ { <<>> }
GroupBys == { <<>>, <<Ident("u")>>, <<Ident("x")>>, <<FuncCall("LOWER", <<Ident("u")>>)>> }
Wheres == { <<>>, <<BinaryExpr("=", FuncCall("LOWER", <<Ident("u")>>), StringLiteral(<<"a">>))>> }
Havings == { <<>>, <<BinaryExpr(">", FuncCall("COUNT", <<StarExpr>>), NumericLiteral(<<"1">>))>>,
             <<BinaryExpr("=", Ident("u"), NumericLiteral(<<"1">>))>> }
SelectProvider ==
    Provider(FALSE, {}, {[key |-> <<"r">>, name |-> TextR], [key |-> <<"t">>, name |-> TextT]})

\* SELECT [DISTINCT] <columns> FROM t [WHERE ..] [GROUP BY ..] [HAVING ..]
\* [ORDER BY u LIMIT 1] under a provider with the catalog alone
SelectInputs ==
    { [stmt |-> [SelectStatement(cols, TableName(<< <<"t">> >>, <<>>)) EXCEPT
                   !.distinct = d, !.where = wh, !.groupBy = g, !.having = h,
                   !.orderBy = tl.orderBy, !.limit = tl.limit],
       env |-> SelectProvider]
      : cols \in ColumnLists, d \in BOOLEAN, wh \in Wheres, g \in GroupBys, h \in Havings,
        tl \in TailClauses }

\* the conditions ANDed to the join key in ON: LOWER(b.u) = 'a' on the right
\* side, LOWER(a.u) = 'a' on the left side, b.u = 1
JoinConditions ==
    { BinaryExpr("=", FuncCall("LOWER", <<Qualified("b", "u")>>), StringLiteral(<<"a">>)),
      BinaryExpr("=", FuncCall("LOWER", <<Qualified("a", "u")>>), StringLiteral(<<"a">>)),
      BinaryExpr("=", Qualified("b", "u"), NumericLiteral(<<"1">>)) }

\* SELECT * FROM r a [INNER|LEFT] JOIN <t b | (SELECT * FROM t) b>
\* ON a.k = b.k AND <condition> [WHERE LOWER(u) = 'a'] [ORDER BY u LIMIT 1]
JoinFilterInputs ==
    { [stmt |-> [SelectStatement(<<Star>>,
                    JoinExpr(jt, TableName(<< <<"r">> >>, <<"a">>), right,
                             BinaryExpr("AND",
                                        BinaryExpr("=", Qualified("a", "k"), Qualified("b", "k")),
                                        c)))
                 EXCEPT !.where = wh, !.orderBy = tl.orderBy, !.limit = tl.limit],
       env |-> SelectProvider]
      : jt \in {"INNER", "LEFT"},
        right \in {TableName(<< <<"t">> >>, <<"b">>), SubqueryTable(SelectStar(<<"t">>), <<"b">>)},
        c \in JoinConditions, wh \in Wheres, tl \in TailClauses }

NoProgram == [err |-> NoErr, base |-> <<>>, pipes |-> <<>>]

InitTranslate ==
    /\ StoreIdle
    /\ arg \in ResolveInputs \cup SelectInputs \cup JoinFilterInputs
    /\ res = NoProgram
    /\ at = "sel_in"

\* TranslateSelectStatementToLogsQL: a fresh visitor without CTEs visits the
\* statement
TranslateSelect ==
    /\ at = "sel_in"
    /\ res' = translateSimpleSelect(arg.env, {}, arg.stmt)
    /\ at' = "sel_out"
    /\ UNCHANGED <<arg, storeVars>>

NextTranslate == TranslateSelect

SpecTranslate == InitTranslate /\ [][NextTranslate]_vars

\* ---- LIKE patterns ------------------------------------------------------------
\* longest LIKE pattern of the specification
MaxPatternLen == 2

\* strings.Count(s, c)
Count(s, c) == Cardinality({i \in 1..Len(s) : s[i] = c})

\* needsQuoteForPattern: a character other than * _ - : / . and the
\* alphanumerics
needsQuoteForPattern(val) ==
    \E i \in 1..Len(val) : val[i] \notin AlnumChars \cup {"*", "_", "-", ":", "/", "."}

formatWildcard(val) == IF needsQuoteForPattern(val) THEN quoteString(val) ELSE val

\* regexp.QuoteMeta of one character
QuoteMeta(c) ==
    IF c \in {"\\", ".", "+", "*", "?", "(", ")", "|", "[", "]", "{", "}", "^", "$"}
    THEN <<"\\", c>> ELSE <<c>>

\* likeToRegex: ^ ... $ with % as .*, _ as . and the character after a
\* backslash quoted; i is the index of the next character to read
likeToRegex(pattern) ==
    LET R[i \in 1..(Len(pattern) + 2)] ==
            IF i > Len(pattern) THEN <<>>
            ELSE CASE pattern[i] = "%" -> <<".", "*">> \o R[i + 1]
                   [] pattern[i] = "_" -> <<".">> \o R[i + 1]
                   [] pattern[i] = "\\" ->
                        IF i + 1 <= Len(pattern)
                        THEN QuoteMeta(pattern[i + 1]) \o R[i + 2]
                        ELSE <<"\\">> \o R[i + 1]
                   [] OTHER -> QuoteMeta(pattern[i]) \o R[i + 1]
    IN <<"^">> \o R[1] \o <<"$">>

\* convertLikePattern: the wildcards are counted before any escape is looked
\* at; one of a bare string, prefix*, *suffix, *substr*, or ~"regex"
convertLikePattern(pattern) ==
    LET percentCount == Count(pattern, "%")
        underscore == Contains(pattern, "_")
        n == Len(pattern)
        orStar(part, text) == IF part = <<>> THEN <<"*">> ELSE formatWildcard(text)
    IN CASE percentCount = 0 /\ ~underscore -> formatString(pattern)
         [] percentCount = 1 /\ pattern[n] = "%" /\ ~underscore ->
              orStar(SubSeq(pattern, 1, n - 1), SubSeq(pattern, 1, n - 1) \o <<"*">>)
         [] percentCount = 1 /\ pattern[1] = "%" /\ pattern[n] # "%" /\ ~underscore ->
              orStar(SubSeq(pattern, 2, n), <<"*">> \o SubSeq(pattern, 2, n))
         [] percentCount = 2 /\ pattern[1] = "%" /\ pattern[n] = "%" /\ ~underscore ->
              orStar(SubSeq(pattern, 2, n - 1), <<"*">> \o SubSeq(pattern, 2, n - 1) \o <<"*">>)
         [] OTHER -> <<"~">> \o quoteString(likeToRegex(pattern))

\* the characters of the patterns: a letter, the two wildcards, the escape
\* character and the wildcard of the emitted filters
PatternChars == {"a", "%", "_", "\\", "*"}
Patterns == SeqsUpTo(PatternChars, MaxPatternLen)

\* f LIKE p and f LIKE q, translated side by side
InitLike ==
    /\ StoreIdle
    /\ arg \in [p : Patterns, q : Patterns]
    /\ res = <<>>
    /\ at = "like_in"

\* translateLikeExpr on field f (NOT absent): f:<converted pattern>
ConvertLike ==
    /\ at = "like_in"
    /\ res' = [p |-> <<"f", ":">> \o convertLikePattern(arg.p),
               q |-> <<"f", ":">> \o convertLikePattern(arg.q)]
    /\ at' = "like_out"
    /\ UNCHANGED <<arg, storeVars>>

NextLike == ConvertLike

SpecLike == InitLike /\ [][NextLike]_vars

\* ---- view file names --------------------------------------------------------------
MaxNameParts == 2
NameParts == {<<>>, <<"a">>, <<"A">>, <<"b">>, <<"a", "_", "b">>, <<"a", ".">>}
ViewNames == SeqsUpTo(NameParts, MaxNameParts)

InitViewName ==
    /\ StoreIdle
    /\ arg \in [a : ViewNames, b : ViewNames]
    /\ res = <<>>
    /\ at = "name_in"

\* the path Save, Load and Remove derive from a view name: <file name>.logsql
\* under the views directory, taken for two names
ViewPaths ==
    /\ at = "name_in"
    /\ LET viewPath(name) == [err |-> name.err, path |-> name.file \o <<".logsql">>]
       IN res' = [a |-> viewPath(sanitizeViewFileName(arg.a)),
                  b |-> viewPath(sanitizeViewFileName(arg.b))]
    /\ at' = "name_out"
    /\ UNCHANGED <<arg, storeVars>>

NextViewName == ViewPaths
SpecViewName == InitViewName /\ [][NextViewName]_vars

\* ---- SHOW VIEWS -----------------------------------------------------------------------
\* the views directory is a map from entry names (<base>, suffix) to Dir or
\* File(content); arg.changes counts the concurrent CREATE VIEW / DROP VIEW
MaxChanges == 2
StatusInternalServerError == 500
ViewBases == {<<>>, <<"a">>, <<"b">>}
EntryNames == {b \o <<s>> : b \in ViewBases, s \in {".logsql", ".lock"}}
StoredQueries == {<<"x", NL>>, <<"y", NL>>, <<" ", NL>>}

HasSuffix(name, suffix) == Len(name) > 0 /\ name[Len(name)] = suffix
TrimSuffix(name, suffix) ==
    IF HasSuffix(name, suffix) THEN SubSeq(name, 1, Len(name) - 1) ELSE name

\* the loop of ListViews and ViewDefinitions over os.ReadDir: the entries that
\* are files named <base>.logsql with a non-empty base
ViewEntries(dir) ==
    {e \in dir : /\ e.name.kind # "dir"
                 /\ HasSuffix(e.key, ".logsql")
                 /\ TrimSuffix(e.key, ".logsql") # <<>>}

\* sort.Strings on the bases of the model: byte order of one-letter names
SortStrings(S) ==
    LET code(s) == IF s = <<"a">> THEN 1 ELSE IF s = <<"b">> THEN 2 ELSE 0
    IN CHOOSE q \in [1..Cardinality(S) -> S] :
           \A i, j \in 1..Cardinality(S) : i < j => code(q[i]) < code(q[j])

\* ViewStore.ListViews, the directory read under s.mu.RLock
ListViews(dir) ==
    SortStrings({TrimSuffix(e.key, ".logsql") : e \in ViewEntries(dir)})

\* ViewStore.ViewDefinitions, directory and files read under one s.mu.RLock:
\* base -> stored query without trailing line ends; an empty view is an error
ViewDefinitions(dir) ==
    IF \E e \in ViewEntries(dir) : IsBlank(TrimRightCRLF(e.name.data))
    THEN [err |-> Errorf("is empty"), defs |-> {}]
    ELSE [err |-> NoErr,
          defs |-> {[key |-> TrimSuffix(e.key, ".logsql"), name |-> TrimRightCRLF(e.name.data)] :
                       e \in ViewEntries(dir)}]

InitShowViews ==
    /\ StoreIdle
    /\ arg \in [dir : {{}, {[key |-> <<"a", ".logsql">>, name |-> File(<<"x", NL>>)]},
                       {[key |-> <<"a", ".logsql">>, name |-> File(<<"x", NL>>)],
                        [key |-> <<"b", ".logsql">>, name |-> Dir]}},
                changes : {0}]
    /\ res = [names |-> <<>>, rows |-> <<>>, err |-> NoErr]
    /\ at = "show_in"

\* buildShowViewsPayload up to the return of ListViews; no name gives no row
ShowViewsList ==
    /\ at = "show_in"
    /\ LET list(names) ==
              /\ res' = [res EXCEPT !.names = names]
              /\ at' = IF Len(names) = 0 THEN "show_out" ELSE "show_listed"
       IN list(ListViews(arg.dir))
    /\ UNCHANGED <<arg, storeVars>>

\* buildShowViewsPayload from ViewDefinitions on: one row per listed name with
\* config[name], the empty string for a name the map does not hold
ShowViewsRows ==
    /\ at = "show_listed"
    /\ LET rows(config) ==
              IF config.err # NoErr
              THEN res' = [res EXCEPT !.err = TranslationError(StatusInternalServerError,
                                                               "load view definitions")]
              ELSE res' = [res EXCEPT !.rows =
                              [i \in 1..Len(res.names) |->
                                  [view_name |-> res.names[i],
                                   query |-> IF Has(config.defs, res.names[i])
                                             THEN Get(config.defs, res.names[i]) ELSE <<>>]]]
       IN rows(ViewDefinitions(arg.dir))
    /\ at' = "show_out"
    /\ UNCHANGED <<arg, storeVars>>

\* a concurrent CREATE [OR REPLACE] VIEW: the rename of Save puts the file in
\* place in one step; lock files come and go likewise
CreateEntry ==
    /\ arg.changes < MaxChanges
    /\ \E n \in EntryNames, q \in StoredQueries :
           /\ ~(Has(arg.dir, n) /\ Get(arg.dir, n) = Dir)
           /\ arg' = [dir |-> Put(arg.dir, n, File(q)), changes |-> arg.changes + 1]
    /\ UNCHANGED <<res, at, storeVars>>

\* a concurrent DROP VIEW: the os.Remove of Remove
DropEntry ==
    /\ arg.changes < MaxChanges
    /\ \E e \in arg.dir :
           arg' = [dir |-> arg.dir \ {e}, changes |-> arg.changes + 1]
    /\ UNCHANGED <<res, at, storeVars>>

NextShowViews == ShowViewsList \/ ShowViewsRows \/ CreateEntry \/ DropEntry
SpecShowViews == InitShowViews /\ [][NextShowViews]_vars

\* ---- SQL parser ---------------------------------------------------------------------
\* A token is its type and literal; the lexer's output is the sequence Tokens
\* followed by EOF for ever.  The parser holds the index of curToken (peekToken
\* is the next one), its errors and its depth counter.
\* frames counts the calls of parseExpression, parseSelectStatement,
\* parseTableFactor and parseWithClause that are active, deepest its maximum.
\* A parse function runs as one activation: got holds the results of the calls
\* it has made that have returned, need the call it is waiting for.
\* The item bound of parseExpressionList (MaxExpressionCount = 1000 in the
\* source) is a parameter of the model.
MaxParserDepth == 100
MaxExpressionCount == 3

Tok(type, lit) == [type |-> type, lit |-> lit]
EOFToken == Tok("EOF", "")

NoCall == [fn |-> ""]
Tokens == arg.stmt \o arg.trailer
New == [pos |-> 1, errors |-> <<>>, depth |-> 0, frames |-> 0, deepest |-> 0,
        got |-> <<>>, need |-> NoCall]
curToken(p) == IF p.pos <= Len(Tokens) THEN Tokens[p.pos] ELSE EOFToken
peekToken(p) == IF p.pos + 1 <= Len(Tokens) THEN Tokens[p.pos + 1] ELSE EOFToken
curTokenIs(p, t) == curToken(p).type = t
peekTokenIs(p, t) == peekToken(p).type = t
nextToken(p) == IF p.pos <= Len(Tokens) THEN [p EXCEPT !.pos = @ + 1] ELSE p
\* an error is its message and the token type (or types) the message names
addError(p, msg, type) == [p EXCEPT !.errors = Append(@, <<msg, type>>)]
\* expectPeek: ok tells whether the token was there
expectPeek(p, t) ==
    IF peekTokenIs(p, t) THEN [ok |-> TRUE, p |-> nextToken(p)]
    ELSE [ok |-> FALSE, p |-> addError(p, "expected %s, got %s", <<t, peekToken(p).type>>)]

\* a parse function returns the parser and the node it built
Parsed(p, n) == [p |-> p, n |-> n]
Nil == [k |-> "nil"]
Enter(p) == [p EXCEPT !.frames = @ + 1,
                      !.deepest = IF p.frames + 1 > @ THEN p.frames + 1 ELSE @]
Leave(r) == [r EXCEPT !.p.frames = @ - 1]

lowest == 1
precedenceOr == 2
precedenceAnd == 3
precedenceComparison == 4
precedenceSum == 5
precedenceProduct == 6
precedencePrefix == 7
precedenceCall == 8

precedences(t) ==
    CASE t = "OR" -> precedenceOr
      [] t = "AND" -> precedenceAnd
      [] t \in {"NOT", "EQ", "NEQ", "LT", "LTE", "GT", "GTE", "IN", "BETWEEN", "LIKE", "IS"} ->
           precedenceComparison
      [] t \in {"PLUS", "MINUS"} -> precedenceSum
      [] t \in {"STAR", "SLASH", "PERCENT"} -> precedenceProduct
      [] t \in {"DOT", "LPAREN", "OVER"} -> precedenceCall
      [] OTHER -> lowest
peekPrecedence(p) == precedences(peekToken(p).type)
curPrecedence(p) == precedences(curToken(p).type)

terminatesExpression(t) ==
    t \in {"SEMICOLON", "COMMA", "RPAREN", "GROUP", "ORDER", "LIMIT", "OFFSET",
           "HAVING", "UNION", "INTERSECT", "EXCEPT"}

isClauseBoundary(t) ==
    t \in {"FROM", "WHERE", "GROUP", "BY", "HAVING", "ORDER", "LIMIT", "OFFSET",
           "JOIN", "INNER", "LEFT", "RIGHT", "FULL", "CROSS", "UNION", "INTERSECT", "EXCEPT"}

\* parseQualifiedName: the parts of a dotted name, curToken is its first part
RECURSIVE parseQualifiedName(_, _)
parseQualifiedName(p, parts) ==
    LET more(e) ==
            IF ~e.ok THEN Parsed(e.p, [k |-> "Identifier", parts |-> parts])
            ELSE parseQualifiedName(e.p, Append(parts, curToken(e.p).lit))
    IN IF parts = <<>> THEN parseQualifiedName(p, <<curToken(p).lit>>)
       ELSE IF peekTokenIs(p, "DOT") THEN more(expectPeek(nextToken(p), "IDENT"))
       ELSE Parsed(p, [k |-> "Identifier", parts |-> parts])

\* parseAliasIfPresent: n is the alias, "" for none
parseAliasIfPresent(p) ==
    LET named(e) == IF ~e.ok THEN Parsed(e.p, "") ELSE Parsed(e.p, curToken(e.p).lit)
    IN IF peekTokenIs(p, "AS") THEN named(expectPeek(nextToken(p), "IDENT"))
       ELSE IF peekTokenIs(p, "IDENT") /\ ~isClauseBoundary(peekToken(p).type)
       THEN Parsed(nextToken(p), curToken(nextToken(p)).lit)
       ELSE Parsed(p, "")

\* parse(fn, p, a) is the call of parse function fn on parser p with argument a
\* (the precedence of parseExpression, the kind of parseList, the left operand
\* of parseInfixExpression): its result once the call has returned, until then
\* the activation waits for it
parse(fn, p, a) ==
    LET returned(r) == Parsed([r.p EXCEPT !.got = Tail(p.got)], r.n)
    IN IF p.need # NoCall THEN Parsed(p, Nil)
       ELSE IF p.got # <<>> THEN returned(Head(p.got))
       ELSE Parsed([p EXCEPT !.need = [fn |-> fn, p |-> p, a |-> a]], Nil)

RECURSIVE parseInfixLoop(_, _, _), parseItems(_, _, _), parseWindowClauses(_, _, _, _)

\* one turn of a comma-separated list loop: the first item, or "," and the
\* next item.  kind "select" is parseSelectList, "order" parseOrderList,
\* "exprs" parseExpressionList, "plain" the argument, IN and PARTITION BY loops
parseItem(st, kind) ==
    LET add(r) == [st EXCEPT !.p = r.p, !.items = Append(@, r.n)]
        aliased(e, a) == Parsed(a.p, [expr |-> e, alias |-> a.n])
        selectItem(r) == aliased(r.n, parseAliasIfPresent(r.p))
        orderItem(r) ==
            IF peekTokenIs(r.p, "DESC") \/ peekTokenIs(r.p, "ASC")
            THEN Parsed(nextToken(r.p), [expr |-> r.n, desc |-> peekTokenIs(r.p, "DESC")])
            ELSE Parsed(r.p, [expr |-> r.n, desc |-> FALSE])
        item(p) ==
            CASE kind = "select" ->
                   IF curTokenIs(p, "STAR")
                   THEN selectItem(Parsed(p, [k |-> "StarExpr", table |-> Nil]))
                   ELSE selectItem(parse("parseExpression", p, lowest))
              [] kind = "order" -> orderItem(parse("parseExpression", p, lowest))
              [] OTHER -> parse("parseExpression", p, lowest)
    IN IF st.items = <<>> THEN add(item(st.p))
       ELSE IF ~peekTokenIs(st.p, "COMMA") THEN [st EXCEPT !.done = TRUE]
       ELSE IF kind = "exprs" /\ Len(st.items) >= MaxExpressionCount
       THEN [st EXCEPT !.p = addError(st.p, "maximum expression count exceeded", ""),
                       !.done = TRUE]
       ELSE add(item(nextToken(nextToken(st.p))))

\* at most n turns of the list loop
parseItems(st, kind, n) ==
    IF n = 0 \/ st.done THEN st
    ELSE IF n = 1 THEN parseItem(st, kind)
    ELSE parseItems(parseItems(st, kind, n \div 2), kind, n - n \div 2)

\* parseSelectList, parseOrderList, parseExpressionList and the loops of
\* parseInfixExpression, parseInExpression and parseWindowSpecification
parseList(p, kind) ==
    LET out(st) == Parsed(st.p, st.items)
    IN out(parseItems([p |-> p, items |-> <<>>, done |-> FALSE], kind, Len(Tokens) + 1))

\* parseWindowSpecification from the loop on: curToken is the clause keyword
parseWindowClauses(p, spec, parsedPartition, parsedOrder) ==
    LET close(q, s) ==
            IF peekTokenIs(q, "RPAREN") THEN Parsed(nextToken(q), s)
            ELSE parseWindowClauses(nextToken(q), s,
                                    parsedPartition \/ curTokenIs(p, "PARTITION"),
                                    parsedOrder \/ curTokenIs(p, "ORDER"))
        partition(e) ==
            LET listed(r) == close(r.p, [spec EXCEPT !.partitionBy = r.n])
            IN IF ~e.ok THEN Parsed(e.p, spec) ELSE listed(parse("parseList", nextToken(e.p), "plain"))
        order(e) ==
            LET listed(r) == close(r.p, [spec EXCEPT !.orderBy = r.n])
            IN IF ~e.ok THEN Parsed(e.p, spec) ELSE listed(parse("parseList", nextToken(e.p), "order"))
    IN CASE curTokenIs(p, "RPAREN") \/ curTokenIs(p, "EOF") -> Parsed(p, spec)
         [] curTokenIs(p, "PARTITION") ->
              IF parsedPartition
              THEN Parsed(addError(p, "duplicate PARTITION clause in window specification", ""), spec)
              ELSE partition(expectPeek(p, "BY"))
         [] curTokenIs(p, "ORDER") ->
              IF parsedOrder
              THEN Parsed(addError(p, "duplicate ORDER clause in window specification", ""), spec)
              ELSE order(expectPeek(p, "BY"))
         [] OTHER ->
              Parsed(addError(p, "unexpected token %s in window specification", curToken(p).type), spec)

parseWindowSpecification(p) ==
    LET spec == [partitionBy |-> <<>>, orderBy |-> <<>>]
        opened(e) ==
            IF ~e.ok THEN Parsed(e.p, spec)
            ELSE IF peekTokenIs(e.p, "RPAREN") THEN Parsed(nextToken(e.p), spec)
            ELSE parseWindowClauses(nextToken(e.p), spec, FALSE, FALSE)
    IN opened(expectPeek(p, "LPAREN"))

\* parseExistsExpression: curToken is EXISTS
parseExistsExpression(p, negate) ==
    LET closed(sub, e) ==
            IF ~e.ok THEN Parsed(e.p, Nil)
            ELSE Parsed(e.p, [k |-> "ExistsExpr", not |-> negate, subquery |-> sub])
        selected(r) == closed(r.n, expectPeek(r.p, "RPAREN"))
        opened(e) ==
            IF ~e.ok THEN Parsed(e.p, Nil) ELSE selected(parse("parseSelectStatement", nextToken(e.p), 0))
    IN opened(expectPeek(p, "LPAREN"))

parseInExpression(p, left, not) ==
    LET expr == [k |-> "InExpr", expr |-> left, not |-> not, list |-> <<>>, subquery |-> Nil]
        closed(n, e) == Parsed(e.p, n)
        selected(r) == closed([expr EXCEPT !.subquery = r.n], expectPeek(r.p, "RPAREN"))
        listed(r) == closed([expr EXCEPT !.list = r.n], expectPeek(r.p, "RPAREN"))
        opened(e) ==
            IF ~e.ok THEN Parsed(e.p, expr)
            ELSE IF curTokenIs(nextToken(e.p), "SELECT")
            THEN selected(parse("parseSelectStatement", nextToken(e.p), 0))
            ELSE listed(parse("parseList", nextToken(e.p), "plain"))
    IN opened(expectPeek(p, "LPAREN"))

parseLikeExpression(p, left, not) ==
    LET like(r) == Parsed(r.p, [k |-> "LikeExpr", expr |-> left, not |-> not, pattern |-> r.n])
    IN like(parse("parseExpression", nextToken(p), precedenceComparison))

parseBetweenExpression(p, left, not) ==
    LET between == [k |-> "BetweenExpr", expr |-> left, not |-> not, lower |-> Nil, upper |-> Nil]
        upper(lo, r) == Parsed(r.p, [between EXCEPT !.lower = lo, !.upper = r.n])
        and(lo, e) ==
            IF ~e.ok THEN Parsed(e.p, [between EXCEPT !.lower = lo])
            ELSE upper(lo, parse("parseExpression", nextToken(e.p), precedenceComparison))
        lower(r) == and(r.n, expectPeek(r.p, "AND"))
    IN lower(parse("parseExpression", nextToken(p), precedenceComparison))

parseIsNullExpression(p, left) ==
    LET null(q, not, e) ==
            IF ~e.ok THEN Parsed(e.p, left)
            ELSE Parsed(e.p, [k |-> "IsNullExpr", expr |-> left, not |-> not])
        negated(q, not) == null(q, not, expectPeek(q, "NULL"))
    IN IF peekTokenIs(p, "NOT") THEN negated(nextToken(p), TRUE) ELSE negated(p, FALSE)

\* parseInfixExpression: curToken is the operator, left the operand before it
parseInfixExpression(p, left) ==
    LET t == curToken(p).type
        binary(operator, r) ==
            Parsed(r.p, [k |-> "BinaryExpr", left |-> left, operator |-> operator, right |-> r.n])
        call(name) ==
            LET node == [k |-> "FuncCall", name |-> name, distinct |-> FALSE, args |-> <<>>,
                         over |-> Nil]
                closed(n, e) == Parsed(e.p, n)
                args(d, r) == closed([node EXCEPT !.distinct = d, !.args = r.n],
                                     expectPeek(r.p, "RPAREN"))
                first(q) ==
                    args(curTokenIs(q, "DISTINCT"),
                         parse("parseList", IF curTokenIs(q, "DISTINCT") THEN nextToken(q) ELSE q, "plain"))
            IN IF peekTokenIs(p, "RPAREN") THEN closed(node, expectPeek(p, "RPAREN"))
               ELSE first(nextToken(p))
        over(r) == Parsed(r.p, [left EXCEPT !.over = r.n])
        dot(q) ==
            IF curTokenIs(q, "STAR") THEN Parsed(q, [k |-> "StarExpr", table |-> left])
            ELSE IF ~curTokenIs(q, "IDENT")
            THEN Parsed(addError(q, "expected identifier after '.', got %s", curToken(q).type), left)
            ELSE Parsed(q, [k |-> "Identifier", parts |-> Append(left.parts, curToken(q).lit)])
        \* NOT before IN, LIKE, BETWEEN or EXISTS negates the operator after it
        not == t = "NOT" /\ peekToken(p).type \in {"IN", "LIKE", "BETWEEN", "EXISTS"}
        q == IF not THEN nextToken(p) ELSE p
        u == curToken(q).type
    IN CASE t \in {"PLUS", "MINUS", "STAR", "SLASH", "PERCENT", "EQ", "NEQ", "LT", "LTE",
                   "GT", "GTE", "AND", "OR"} \/ (t = "NOT" /\ ~not) ->
              binary(IF t = "NOT" THEN "NOT" ELSE curToken(p).lit,
                     parse("parseExpression", nextToken(p), curPrecedence(p)))
         [] u = "IN" -> parseInExpression(q, left, not)
         [] u = "LIKE" -> parseLikeExpression(q, left, not)
         [] u = "BETWEEN" -> parseBetweenExpression(q, left, not)
         [] u = "EXISTS" /\ not -> parseExistsExpression(q, TRUE)
         [] t = "IS" -> parseIsNullExpression(p, left)
         [] t = "LPAREN" ->
              IF left.k # "Identifier" THEN Parsed(p, left) ELSE call(left.parts)
         [] t = "OVER" ->
              IF left.k # "FuncCall"
              THEN Parsed(addError(p, "OVER requires preceding function call", ""), left)
              ELSE over(parse("parseWindowSpecification", p, 0))
         [] t = "DOT" ->
              IF left.k # "Identifier" THEN Parsed(p, left) ELSE dot(nextToken(p))
         [] OTHER -> Parsed(p, left)

\* the loop of parseExpression: infix operators that bind tighter than precedence
parseInfixLoop(p, left, precedence) ==
    LET again(r) == parseInfixLoop(r.p, r.n, precedence)
    IN IF terminatesExpression(peekToken(p).type) THEN Parsed(p, left)
       ELSE IF precedence >= peekPrecedence(p) THEN Parsed(p, left)
       ELSE again(parse("parseInfixExpression", nextToken(p), left))

parseExpression(p, precedence) ==
    LET t == curToken(p).type
        \* the prefix parse: more says whether the infix loop follows
        prefixed(r, more) == [p |-> r.p, n |-> r.n, more |-> more]
        literal(q, n) == prefixed(Parsed(q, n), TRUE)
        unary(operator, r) ==
            prefixed(Parsed(r.p, [k |-> "UnaryExpr", operator |-> operator, expr |-> r.n]), TRUE)
        closed(n, e) == prefixed(Parsed(e.p, n), e.ok)
        paren(r) == closed(r.n, expectPeek(r.p, "RPAREN"))
        prefix(q) ==
            CASE t = "IDENT" -> prefixed(parseQualifiedName(q, <<>>), TRUE)
              [] t = "REPLACE" -> literal(q, [k |-> "Identifier", parts |-> <<curToken(q).lit>>])
              [] t = "NUMBER" -> literal(q, [k |-> "NumericLiteral", value |-> curToken(q).lit])
              [] t = "STRING" -> literal(q, [k |-> "StringLiteral", value |-> curToken(q).lit])
              [] t = "TRUE" -> literal(q, [k |-> "BooleanLiteral", value |-> TRUE])
              [] t = "FALSE" -> literal(q, [k |-> "BooleanLiteral", value |-> FALSE])
              [] t = "NULL" -> literal(q, [k |-> "NullLiteral"])
              [] t = "PLACEHOLDER" -> literal(q, [k |-> "Placeholder", symbol |-> curToken(q).lit])
              [] t = "STAR" -> literal(q, [k |-> "StarExpr", table |-> Nil])
              [] t = "MINUS" -> unary("-", parse("parseExpression", nextToken(q), precedencePrefix))
              [] t = "NOT" -> unary("NOT", parse("parseExpression", nextToken(q), precedencePrefix))
              [] t = "LPAREN" -> paren(parse("parseExpression", nextToken(q), lowest))
              [] t = "EXISTS" -> prefixed(parseExistsExpression(q, FALSE), TRUE)
              [] OTHER -> prefixed(Parsed(addError(q, "unexpected token %s", t), Nil), FALSE)
        infix(x) == IF x.more THEN parseInfixLoop(x.p, x.n, precedence) ELSE Parsed(x.p, x.n)
        \* the deferred p.depth--
        return(r) == Leave([r EXCEPT !.p.depth = @ - 1])
    IN IF p.depth + 1 > MaxParserDepth
       THEN Parsed(addError(p, "expression nesting too deep", ""), Nil)
       ELSE return(infix(prefix(Enter([p EXCEPT !.depth = @ + 1]))))

\* ---- SQL parser: FROM ---------------------------------------------------------------
peekJoinType(p) ==
    LET t == peekToken(p).type
    IN CASE t \in {"JOIN", "INNER"} -> "INNER"
         [] t \in {"LEFT", "RIGHT", "FULL", "CROSS"} -> t
         [] OTHER -> ""

\* parseTableFactor: a name, a subquery or a parenthesised table expression
parseTableFactor(p) ==
    LET return(r) == Leave(r)
        aliased(n, a) == Parsed(a.p, [n EXCEPT !.alias = a.n])
        subquery(sub, e) ==
            IF ~e.ok THEN Parsed(e.p, Nil)
            ELSE aliased([k |-> "SubqueryTable", select |-> sub, alias |-> ""],
                         parseAliasIfPresent(e.p))
        selected(with, r) ==
            subquery(IF r.n = Nil THEN Nil ELSE [r.n EXCEPT !.with = with],
                     expectPeek(r.p, "RPAREN"))
        withSelect(w) ==
            IF ~curTokenIs(w.p, "SELECT") THEN Parsed(w.p, Nil)
            ELSE selected(w.n, parse("parseSelectStatement", w.p, 0))
        nested(r) == Parsed(expectPeek(r.p, "RPAREN").p, r.n)
        named(r) == aliased([k |-> "TableName", name |-> r.n.parts, alias |-> ""],
                            parseAliasIfPresent(r.p))
        paren(q) ==
            CASE curTokenIs(q, "WITH") -> withSelect(parse("parseWithClause", q, 0))
              [] curTokenIs(q, "SELECT") -> selected(Nil, parse("parseSelectStatement", q, 0))
              [] OTHER -> nested(parse("parseTableExpression", q, 0))
        factor(q) ==
            CASE curTokenIs(q, "IDENT") -> named(parseQualifiedName(q, <<>>))
              [] curTokenIs(q, "LPAREN") -> paren(nextToken(q))
              [] OTHER ->
                   Parsed(addError(q, "unexpected token %s in FROM clause", curToken(q).type), Nil)
    IN return(factor(Enter(p)))

\* the loop of parseTableExpression: joins onto left
RECURSIVE parseJoins(_, _)
parseJoins(p, left) ==
    LET joinType == peekJoinType(p)
        on(n, r) == parseJoins(r.p, [n EXCEPT !.on = r.n])
        joined(r) ==
            LET join == [k |-> "JoinExpr", left |-> left, right |-> r.n, type |-> joinType,
                         on |-> Nil]
            IN IF peekTokenIs(r.p, "ON")
               THEN on(join, parse("parseExpression", nextToken(nextToken(r.p)), lowest))
               ELSE parseJoins(r.p, join)
        outer(q) == IF peekTokenIs(q, "OUTER") THEN nextToken(q) ELSE q
        keyword(q) ==
            CASE curTokenIs(q, "JOIN") -> q
              [] curTokenIs(q, "INNER") \/ curTokenIs(q, "CROSS") -> expectPeek(q, "JOIN").p
              [] OTHER -> expectPeek(outer(q), "JOIN").p
    IN IF joinType = "" THEN Parsed(p, left)
       ELSE joined(parse("parseTableFactor", nextToken(keyword(nextToken(p))), 0))

parseTableExpression(p) ==
    LET joins(r) == parseJoins(r.p, r.n)
    IN joins(parse("parseTableFactor", p, 0))

\* ---- SQL parser: SELECT -------------------------------------------------------------
\* parseSelectCore: curToken is SELECT
parseSelectCore(p) ==
    LET stmt == [k |-> "SelectStatement", with |-> Nil, distinct |-> FALSE, columns |-> <<>>,
                 from |-> Nil, where |-> Nil, groupBy |-> <<>>, having |-> Nil,
                 orderBy |-> <<>>, limit |-> Nil, setOps |-> <<>>]
        set(s, field, r) == Parsed(r.p, [s EXCEPT ![field] = r.n])
        distinct(q) ==
            IF peekTokenIs(q, "DISTINCT") THEN Parsed(nextToken(q), [stmt EXCEPT !.distinct = TRUE])
            ELSE Parsed(q, stmt)
        columns(r) == set(r.n, "columns", parse("parseList", nextToken(r.p), "select"))
        from(r) ==
            IF peekTokenIs(r.p, "FROM")
            THEN set(r.n, "from", parse("parseTableExpression", nextToken(nextToken(r.p)), 0))
            ELSE r
        where(r) ==
            IF peekTokenIs(r.p, "WHERE")
            THEN set(r.n, "where", parse("parseExpression", nextToken(nextToken(r.p)), lowest))
            ELSE r
        by(s, field, kind, e) ==
            IF ~e.ok THEN Parsed(e.p, s) ELSE set(s, field, parse("parseList", nextToken(e.p), kind))
        groupBy(r) ==
            IF peekTokenIs(r.p, "GROUP")
            THEN by(r.n, "groupBy", "exprs", expectPeek(nextToken(r.p), "BY"))
            ELSE r
        having(r) ==
            IF peekTokenIs(r.p, "HAVING")
            THEN set(r.n, "having", parse("parseExpression", nextToken(nextToken(r.p)), lowest))
            ELSE r
        orderBy(r) ==
            IF peekTokenIs(r.p, "ORDER")
            THEN by(r.n, "orderBy", "order", expectPeek(nextToken(r.p), "BY"))
            ELSE r
        offset(s, count, r) == Parsed(r.p, [s EXCEPT !.limit = [count |-> count, offset |-> r.n]])
        counted(s, r) ==
            IF peekTokenIs(r.p, "OFFSET")
            THEN offset(s, r.n, parse("parseExpression", nextToken(nextToken(r.p)), lowest))
            ELSE Parsed(r.p, [s EXCEPT !.limit = [count |-> r.n, offset |-> Nil]])
        limit(r) ==
            IF peekTokenIs(r.p, "LIMIT")
            THEN counted(r.n, parse("parseExpression", nextToken(nextToken(r.p)), lowest))
            ELSE IF peekTokenIs(r.p, "OFFSET")
            THEN offset(r.n, Nil, parse("parseExpression", nextToken(nextToken(r.p)), lowest))
            ELSE r
    IN limit(orderBy(having(groupBy(where(from(columns(distinct(p))))))))

\* parseSetOperations: UNION, INTERSECT and EXCEPT operands appended to stmt
RECURSIVE parseSetOperations(_, _)
parseSetOperations(p, stmt) ==
    LET operator == peekToken(p).type
        append(all, right, q) ==
            parseSetOperations(q, [stmt EXCEPT !.setOps =
                Append(@, [operator |-> operator, all |-> all, select |-> right])])
        closed(all, right, e) ==
            IF ~e.ok THEN Parsed(e.p, stmt) ELSE append(all, right, e.p)
        selected(all, with, r) ==
            closed(all, IF r.n = Nil THEN Nil ELSE [r.n EXCEPT !.with = with],
                   expectPeek(r.p, "RPAREN"))
        withSelect(all, w) ==
            IF ~curTokenIs(w.p, "SELECT") THEN Parsed(w.p, stmt)
            ELSE selected(all, w.n, parse("parseSelectStatement", w.p, 0))
        paren(all, q) ==
            CASE curTokenIs(q, "WITH") -> withSelect(all, parse("parseWithClause", q, 0))
              [] curTokenIs(q, "SELECT") -> selected(all, Nil, parse("parseSelectStatement", q, 0))
              [] OTHER ->
                   Parsed(addError(q, "set operator requires SELECT, got %s", curToken(q).type), stmt)
        bare(all, r) == append(all, r.n, r.p)
        plain(all, e) ==
            IF ~e.ok THEN Parsed(e.p, stmt) ELSE bare(all, parse("parseSelectStatement", e.p, 0))
        right(all, q) ==
            IF peekTokenIs(q, "LPAREN") THEN paren(all, nextToken(nextToken(q)))
            ELSE plain(all, expectPeek(q, "SELECT"))
        operand(q) ==
            IF peekTokenIs(q, "ALL") THEN right(TRUE, nextToken(q)) ELSE right(FALSE, q)
    IN IF operator \notin {"UNION", "INTERSECT", "EXCEPT"} THEN Parsed(p, stmt)
       ELSE operand(nextToken(p))

parseSelectStatement(p) ==
    LET return(r) == Leave([r EXCEPT !.p.depth = @ - 1])
        setOps(r) == return(parseSetOperations(r.p, r.n))
    IN IF p.depth + 1 > MaxParserDepth
       THEN Parsed(addError(p, "maximum nesting depth exceeded", ""), Nil)
       ELSE setOps(parse("parseSelectCore", Enter([p EXCEPT !.depth = @ + 1]), 0))

\* ---- SQL parser: WITH ---------------------------------------------------------------
\* the column list of a CTE after its first name
RECURSIVE parseCTEColumns(_, _)
parseCTEColumns(p, columns) ==
    LET more(e) ==
            IF ~e.ok THEN [ok |-> FALSE, p |-> e.p, n |-> columns]
            ELSE parseCTEColumns(e.p, Append(columns, curToken(e.p).lit))
    IN IF peekTokenIs(p, "COMMA") THEN more(expectPeek(nextToken(p), "IDENT"))
       ELSE [ok |-> TRUE, p |-> p, n |-> columns]

\* the loop of parseWithClause: one CTE per turn
RECURSIVE parseCTEs(_, _)
parseCTEs(p, clause) ==
    LET next(c, e) ==
            LET added == [clause EXCEPT !.ctes = Append(@, c)]
            IN IF ~e.ok THEN Parsed(e.p, clause)
               ELSE IF peekTokenIs(e.p, "COMMA") THEN parseCTEs(nextToken(e.p), added)
               ELSE Parsed(expectPeek(e.p, "SELECT").p, added)
        selected(c, with, r) ==
            next([c EXCEPT !.select = IF r.n = Nil THEN Nil ELSE [r.n EXCEPT !.with = with]],
                 expectPeek(r.p, "RPAREN"))
        withSelect(c, w) ==
            IF ~curTokenIs(w.p, "SELECT")
            THEN Parsed(addError(w.p, "WITH subquery must start with SELECT, got %s",
                                 curToken(w.p).type), clause)
            ELSE selected(c, w.n, parse("parseSelectStatement", w.p, 0))
        body(c, q) ==
            CASE curTokenIs(q, "WITH") -> withSelect(c, parse("parseWithClause", q, 0))
              [] curTokenIs(q, "SELECT") -> selected(c, Nil, parse("parseSelectStatement", q, 0))
              [] OTHER ->
                   Parsed(addError(q, "WITH subquery must start with SELECT, got %s",
                                   curToken(q).type), clause)
        opened(c, e) == IF ~e.ok THEN Parsed(e.p, clause) ELSE body(c, nextToken(e.p))
        as(c, e) == IF ~e.ok THEN Parsed(e.p, clause) ELSE opened(c, expectPeek(e.p, "LPAREN"))
        closed(c, e) == IF ~e.ok THEN Parsed(e.p, clause) ELSE as(c, expectPeek(e.p, "AS"))
        listed(c, r) ==
            IF ~r.ok THEN Parsed(r.p, clause)
            ELSE closed([c EXCEPT !.columns = r.n], expectPeek(r.p, "RPAREN"))
        columns(c, e) ==
            IF ~e.ok THEN closed(c, expectPeek(e.p, "RPAREN"))
            ELSE listed(c, parseCTEColumns(e.p, <<curToken(e.p).lit>>))
        named(e) ==
            LET cte == [name |-> curToken(e.p).lit, columns |-> <<>>, select |-> Nil]
            IN IF ~e.ok THEN Parsed(e.p, clause)
               ELSE IF peekTokenIs(e.p, "LPAREN")
               THEN columns(cte, expectPeek(nextToken(e.p), "IDENT"))
               ELSE as(cte, expectPeek(e.p, "AS"))
    IN named(expectPeek(p, "IDENT"))

\* parseWithClause: curToken is WITH; on success curToken is the SELECT after it
parseWithClause(p) ==
    LET clause(recursive) == [recursive |-> recursive, ctes |-> <<>>]
        ctes(q) ==
            IF peekTokenIs(q, "RECURSIVE") THEN parseCTEs(nextToken(q), clause(TRUE))
            ELSE parseCTEs(q, clause(FALSE))
    IN Leave(ctes(Enter(p)))

\* ---- SQL parser: statements ---------------------------------------------------------
parseDescribeStatement(p) ==
    LET stmt(target) == [k |-> "DescribeStatement", target |-> target, name |-> <<>>]
        named(target, r) == Parsed(r.p, [stmt(target) EXCEPT !.name = r.n.parts])
        name(target, e) ==
            IF ~e.ok THEN Parsed(e.p, stmt(target))
            ELSE named(target, parseQualifiedName(e.p, <<>>))
    IN CASE peekTokenIs(p, "TABLE") -> name("TABLE", expectPeek(nextToken(p), "IDENT"))
         [] peekTokenIs(p, "VIEW") -> name("VIEW", expectPeek(nextToken(p), "IDENT"))
         [] OTHER ->
              Parsed(addError(p, "DESCRIBE expects TABLE or VIEW, got %s", peekToken(p).type),
                     stmt(""))

parseShowStatement(p) ==
    CASE peekTokenIs(p, "TABLES") ->
           Parsed(nextToken(nextToken(p)), [k |-> "ShowTablesStatement"])
      [] peekTokenIs(p, "VIEWS") ->
           Parsed(nextToken(nextToken(p)), [k |-> "ShowViewsStatement"])
      [] OTHER ->
           Parsed(addError(p, "SHOW expects TABLES or VIEWS, got %s", peekToken(p).type), Nil)

parseDeleteStatement(p) ==
    LET stmt == [k |-> "DeleteStatement", table |-> Nil, where |-> Nil]
        where(t, r) == Parsed(r.p, [stmt EXCEPT !.table = t, !.where = r.n])
        table(r) ==
            IF peekTokenIs(r.p, "WHERE")
            THEN where(r.n, parse("parseExpression", nextToken(nextToken(r.p)), lowest))
            ELSE Parsed(r.p, [stmt EXCEPT !.table = r.n])
        from(e) ==
            IF ~e.ok THEN Parsed(e.p, stmt) ELSE table(parse("parseTableExpression", nextToken(e.p), 0))
    IN from(expectPeek(p, "FROM"))

parseDropViewStatement(p) ==
    LET stmt(m, x) == [k |-> "DropViewStatement", materialized |-> m, ifExists |-> x,
                       name |-> <<>>]
        named(m, x, r) == Parsed(r.p, [stmt(m, x) EXCEPT !.name = r.n.parts])
        name(m, x, e) ==
            IF ~e.ok THEN Parsed(e.p, stmt(m, x)) ELSE named(m, x, parseQualifiedName(e.p, <<>>))
        exists(m, e) ==
            IF ~e.ok THEN Parsed(e.p, stmt(m, FALSE)) ELSE name(m, TRUE, expectPeek(e.p, "IDENT"))
        if(m, e) ==
            IF ~e.ok THEN Parsed(e.p, stmt(m, FALSE)) ELSE exists(m, expectPeek(e.p, "EXISTS"))
        viewKeyword(m, e) ==
            IF ~e.ok THEN Parsed(e.p, stmt(m, FALSE))
            ELSE IF peekTokenIs(e.p, "IF") THEN if(m, expectPeek(e.p, "IF"))
            ELSE name(m, FALSE, expectPeek(e.p, "IDENT"))
    IN IF peekTokenIs(p, "MATERIALIZED")
       THEN viewKeyword(TRUE, expectPeek(nextToken(p), "VIEW"))
       ELSE viewKeyword(FALSE, expectPeek(p, "VIEW"))

\* consumeSemicolons: consumed tells whether a semicolon was passed
RECURSIVE consumeSemicolons(_, _)
consumeSemicolons(p, consumed) ==
    IF curTokenIs(p, "SEMICOLON") \/ peekTokenIs(p, "SEMICOLON")
    THEN consumeSemicolons(nextToken(p), TRUE)
    ELSE [p |-> p, consumed |-> consumed]

\* ParseStatement for the statements of the model: SELECT (with WITH), DELETE,
\* DROP VIEW, DESCRIBE and SHOW; n is the statement
ParseStatement(p) ==
    LET t == curToken(p).type
        trailing(stmt, c) ==
            IF peekTokenIs(c.p, "EOF") THEN Parsed(c.p, stmt)
            ELSE Parsed(addError(c.p, "unexpected token %s after statement",
                                 IF c.consumed THEN curToken(c.p).type
                                 ELSE peekToken(c.p).type), stmt)
        end(r) == trailing(r.n, consumeSemicolons(r.p, FALSE))
        selected(with, r) == end(Parsed(r.p, IF r.n = Nil THEN Nil ELSE [r.n EXCEPT !.with = with]))
        withSelect(w) ==
            IF curTokenIs(w.p, "SELECT") THEN selected(w.n, parse("parseSelectStatement", w.p, 0))
            ELSE end(Parsed(w.p, Nil))
    IN CASE t = "WITH" -> withSelect(parse("parseWithClause", p, 0))
         [] t = "SELECT" -> end(parse("parseSelectStatement", p, 0))
         [] t = "DELETE" -> end(parseDeleteStatement(p))
         [] t = "DROP" -> end(parseDropViewStatement(p))
         [] t = "DESCRIBE" -> end(parseDescribeStatement(p))
         [] t = "SHOW" -> end(parseShowStatement(p))
         [] OTHER -> end(Parsed(addError(p, "unsupported statement starting with %s", t), Nil))

\* the body of parse function fn
run(fn, p, a) ==
    CASE fn = "parseExpression" -> parseExpression(p, a)
      [] fn = "parseInfixExpression" -> parseInfixExpression(p, a)
      [] fn = "parseList" -> parseList(p, a)
      [] fn = "parseWindowSpecification" -> parseWindowSpecification(p)
      [] fn = "parseTableFactor" -> parseTableFactor(p)
      [] fn = "parseTableExpression" -> parseTableExpression(p)
      [] fn = "parseSelectCore" -> parseSelectCore(p)
      [] fn = "parseSelectStatement" -> parseSelectStatement(p)
      [] fn = "parseWithClause" -> parseWithClause(p)
      [] OTHER -> ParseStatement(p)

\* ---- SQL parser: the statements handed to it --------------------------------------
\* tokens as lexer.NextToken yields them: keywords carry their upper-cased text
Keyword(t) == Tok(t, t)
Id(name) == Tok("IDENT", name)
Number(v) == Tok("NUMBER", v)
LParen == Tok("LPAREN", "(")
RParen == Tok("RPAREN", ")")
Comma == Tok("COMMA", ",")
Semicolon == Tok("SEMICOLON", ";")
Equals == Tok("EQ", "=")
StarToken == Tok("STAR", "*")

\* s repeated n times
Repeat(s, n) == [i \in 1..(n * Len(s)) |-> s[((i - 1) % Len(s)) + 1]]
\* n items a, a, ..., a
ItemList(n) == [i \in 1..(2 * n - 1) |-> IF i % 2 = 1 THEN Id("a") ELSE Comma]

SelectOne == <<Keyword("SELECT"), Number("1")>>
SelectStarFrom == <<Keyword("SELECT"), StarToken, Keyword("FROM")>>
SelectFromT == SelectStarFrom \o <<Id("t")>>

\* stmt and trailer are the tokens of the statement and what follows it, nest
\* the number of constructs nested in one another, longest the length of the
\* longest comma-separated list, cmp and conj the comparison after NOT a and
\* whether AND b = 2 follows it
ParseInput(stmt) ==
    [stmt |-> stmt, trailer |-> <<>>, nest |-> 0, longest |-> 0, cmp |-> <<>>, conj |-> FALSE]

Statements ==
    { SelectOne, SelectFromT,
      <<Keyword("SHOW"), Keyword("TABLES")>>,
      <<Keyword("SHOW"), Keyword("VIEWS")>>,
      <<Keyword("DESCRIBE"), Keyword("TABLE"), Id("t")>>,
      <<Keyword("DROP"), Keyword("VIEW"), Id("v")>>,
      <<Keyword("DELETE"), Keyword("FROM"), Id("t")>>,
      <<Keyword("WITH"), Id("c"), Keyword("AS"), LParen>> \o SelectOne
          \o <<RParen, Keyword("SELECT"), Id("a"), Keyword("FROM"), Id("c")>> }
Trailers ==
    { <<>>, <<Semicolon>>, <<Semicolon, Semicolon>>,
      <<Number("2")>>, <<Number("2"), Id("y")>>,
      <<Semicolon, Id("x")>>, <<Semicolon, Semicolon, Id("x")>>,
      <<Semicolon>> \o SelectOne }
TrailingInputs ==
    { [ParseInput(s) EXCEPT !.trailer = t] : s \in Statements, t \in Trailers }

Comparisons ==
    { <<Tok(t[1], t[2]), Number("1")>> :
          t \in {<<"EQ", "=">>, <<"NEQ", "!=">>, <<"LT", "<">>, <<"LTE", "<=">>,
                 <<"GT", ">">>, <<"GTE", ">=">>} }
    \cup { <<Keyword("IN"), LParen, Number("1"), RParen>>,
           <<Keyword("BETWEEN"), Number("1"), Keyword("AND"), Number("2")>>,
           <<Keyword("LIKE"), Tok("STRING", "x")>>,
           <<Keyword("IS"), Keyword("NULL")>> }
Conjunct == <<Keyword("AND"), Id("b"), Equals, Number("2")>>
NotInputs ==
    { [ParseInput(SelectFromT \o <<Keyword("WHERE"), Keyword("NOT"), Id("a")>> \o c
                  \o (IF j THEN Conjunct ELSE <<>>))
          EXCEPT !.cmp = c, !.conj = j] : c \in Comparisons, j \in BOOLEAN }

NestDepths == {1, 2, MaxParserDepth + 1}
NestedInputs ==
    UNION { { [ParseInput(<<Keyword("SELECT")>> \o Repeat(<<LParen>>, n) \o <<Id("a")>>
                          \o Repeat(<<RParen>>, n)) EXCEPT !.nest = n],
              [ParseInput(Repeat(SelectStarFrom \o <<LParen>>, n) \o SelectFromT
                          \o Repeat(<<RParen>>, n)) EXCEPT !.nest = n],
              [ParseInput(SelectStarFrom \o Repeat(<<LParen>>, n) \o <<Id("t")>>
                          \o Repeat(<<RParen>>, n)) EXCEPT !.nest = n],
              [ParseInput(Repeat(<<Keyword("WITH"), Id("c"), Keyword("AS"), LParen>>, n)
                          \o SelectOne \o Repeat(<<RParen>> \o SelectOne, n))
                   EXCEPT !.nest = n] } : n \in NestDepths }

ListLengths == {1, 2, MaxExpressionCount, MaxExpressionCount + 1}
ListInputs ==
    UNION { { [ParseInput(<<Keyword("SELECT")>> \o ItemList(n)) EXCEPT !.longest = n],
              [ParseInput(<<Keyword("SELECT"), Id("f"), LParen>> \o ItemList(n) \o <<RParen>>)
                   EXCEPT !.longest = n],
              [ParseInput(SelectFromT \o <<Keyword("WHERE"), Id("a"), Keyword("IN"), LParen>>
                          \o ItemList(n) \o <<RParen>>) EXCEPT !.longest = n],
              [ParseInput(<<Keyword("SELECT"), Id("a"), Keyword("FROM"), Id("t"),
                            Keyword("GROUP"), Keyword("BY")>> \o ItemList(n))
                   EXCEPT !.longest = n],
              [ParseInput(<<Keyword("SELECT"), Id("f"), LParen, Id("a"), RParen,
                            Keyword("OVER"), LParen, Keyword("PARTITION"), Keyword("BY")>>
                          \o ItemList(n) \o <<RParen>>) EXCEPT !.longest = n] } :
            n \in ListLengths }

InitParse ==
    /\ StoreIdle
    /\ arg \in TrailingInputs \cup NotInputs \cup NestedInputs \cup ListInputs
    /\ res = <<>>
    /\ at = "parse_in"

\* parser.New over the lexer's tokens and the call of ParseStatement; res holds
\* the activations of the parse functions, the innermost last
Activation(fn, p, a) == [fn |-> fn, p |-> p, a |-> a, got |-> <<>>]
Parse ==
    /\ at = "parse_in"
    /\ res' = <<Activation("ParseStatement", New, 0)>>
    /\ at' = "parsing"
    /\ UNCHANGED <<arg, storeVars>>

\* the innermost activation runs up to its next call, or to its return
Ran(f) == run(f.fn, [f.p EXCEPT !.got = f.got], f.a)

\* a parse function calls another
Call ==
    /\ at = "parsing"
    /\ LET called(c) ==
               /\ c # NoCall
               /\ res' = Append(res, Activation(c.fn, c.p, c.a))
       IN called(Ran(res[Len(res)]).p.need)
    /\ UNCHANGED <<arg, at, storeVars>>

\* a parse function returns to its caller
Return ==
    /\ at = "parsing"
    /\ Len(res) > 1
    /\ LET returned(r) ==
               /\ r.p.need = NoCall
               /\ res' = [SubSeq(res, 1, Len(res) - 1) EXCEPT ![Len(res) - 1].got = Append(@, r)]
       IN returned(Ran(res[Len(res)]))
    /\ UNCHANGED <<arg, at, storeVars>>

\* ParseStatement returns: the statement, Errors() and the deepest nesting
Finish ==
    /\ at = "parsing"
    /\ Len(res) = 1
    /\ LET returned(r) ==
               /\ r.p.need = NoCall
               /\ res' = [stmt |-> r.n, errors |-> r.p.errors, deepest |-> r.p.deepest]
       IN returned(Ran(res[1]))
    /\ at' = "parse_out"
    /\ UNCHANGED <<arg, storeVars>>

NextParse == Parse \/ Call \/ Return \/ Finish
SpecParse == InitParse /\ [][NextParse]_vars

\* ---- SQL renderer -------------------------------------------------------------------
\* The rendered text is a sequence of pieces: a word (a run of letters and "_"),
\* a number (a run of digits), a symbol, a space or a quoted string.  The
\* renderer never writes two words or numbers without a piece between them.
Word(s) == [c |-> "word", s |-> s]
Digits(s) == [c |-> "number", s |-> s]
Sym(s) == [c |-> "symbol", s |-> s]
Space == [c |-> "space", s |-> " "]
Quoted(s) == [c |-> "string", s |-> s]

\* the renderer: its builder and the number of its errs
renderer == [builder |-> <<>>, errs |-> 0]
write(r, parts) == [r EXCEPT !.builder = @ \o parts]
fail(r) == [r EXCEPT !.errs = @ + 1]

\* an operator as the parser stored it: the literal of its token
Operator(op) == IF op \in {"AND", "OR", "NOT"} THEN Word(op) ELSE Sym(op)
\* strings.ReplaceAll(e.Value, "'", "''") on the string values of the model
ReplaceAllQuotes(value) == IF value = "'" THEN "''" ELSE value

\* render(fn, r, node) is the call of render function fn
RECURSIVE render(_, _, _)

\* strings.Join(id.Parts, ".")
renderIdentifier(r, parts) ==
    write(r, [i \in 1..(2 * Len(parts) - 1) |->
                 IF i % 2 = 1 THEN Word(parts[(i + 1) \div 2]) ELSE Sym(".")])

\* the loops over Columns, GroupBy, OrderBy, Args, List, CTEs, Columns of a CTE
\* and SetOps: l.fn renders an item, l.sep tells whether ", " separates them
renderItems(r, l) ==
    LET last(q) ==
            render(l.fn, IF l.sep /\ Len(l.items) > 1 THEN write(q, <<Sym(","), Space>>) ELSE q,
                   l.items[Len(l.items)])
    IN IF l.items = <<>> THEN r
       ELSE last(render("renderItems", r, [l EXCEPT !.items = SubSeq(@, 1, Len(@) - 1)]))
Items(fn, items) == [fn |-> fn, items |-> items, sep |-> TRUE]

renderExpr(r, e) ==
    LET k == e.k
        not(q) == IF e.not THEN write(q, <<Space, Word("NOT")>>) ELSE q
        operand(q) == render("renderExpr", q, e.expr)
    IN CASE k = "Identifier" -> renderIdentifier(r, e.parts)
         [] k = "NumericLiteral" -> write(r, <<Digits(e.value)>>)
         [] k = "StringLiteral" -> write(r, <<Quoted(ReplaceAllQuotes(e.value))>>)
         [] k = "BooleanLiteral" -> write(r, <<Word(IF e.value THEN "TRUE" ELSE "FALSE")>>)
         [] k = "NullLiteral" -> write(r, <<Word("NULL")>>)
         [] k = "Placeholder" -> write(r, <<Sym(e.symbol)>>)
         [] k = "BinaryExpr" ->
              write(render("renderExpr",
                           write(render("renderExpr", write(r, <<Sym("(")>>), e.left),
                                 <<Space, Operator(e.operator), Space>>),
                           e.right),
                    <<Sym(")")>>)
         [] k = "UnaryExpr" ->
              operand(write(r, IF e.operator = "NOT" THEN <<Word("NOT"), Space>>
                               ELSE <<Operator(e.operator)>>))
         [] k = "FuncCall" ->
              write(render("renderItems",
                           write(renderIdentifier(r, e.name),
                                 <<Sym("(")>> \o (IF e.distinct THEN <<Word("DISTINCT"), Space>>
                                                  ELSE <<>>)),
                           Items("renderExpr", e.args)),
                    <<Sym(")")>>)
         [] k = "StarExpr" ->
              IF e.table # Nil THEN write(renderIdentifier(r, e.table.parts), <<Sym("."), Sym("*")>>)
              ELSE write(r, <<Sym("*")>>)
         [] k = "InExpr" ->
              write(render(IF e.subquery # Nil THEN "renderSelect" ELSE "renderItems",
                           write(not(operand(r)), <<Space, Word("IN"), Space, Sym("(")>>),
                           IF e.subquery # Nil THEN e.subquery ELSE Items("renderExpr", e.list)),
                    <<Sym(")")>>)
         [] k = "BetweenExpr" ->
              render("renderExpr",
                     write(render("renderExpr",
                                  write(not(operand(r)), <<Space, Word("BETWEEN"), Space>>),
                                  e.lower),
                           <<Space, Word("AND"), Space>>),
                     e.upper)
         [] k = "LikeExpr" ->
              render("renderExpr", write(not(operand(r)), <<Space, Word("LIKE"), Space>>),
                     e.pattern)
         [] k = "IsNullExpr" ->
              write(not(write(operand(r), <<Space, Word("IS")>>)), <<Space, Word("NULL")>>)
         [] k = "ExistsExpr" ->
              write(render("renderSelect",
                           write(r, (IF e.not THEN <<Word("NOT"), Space>> ELSE <<>>)
                                    \o <<Word("EXISTS"), Space, Sym("(")>>),
                           e.subquery),
                    <<Sym(")")>>)
         [] k = "SubqueryExpr" ->
              write(render("renderSelect", write(r, <<Sym("(")>>), e.select), <<Sym(")")>>)
         [] OTHER -> fail(r)

renderJoinType(r, j) ==
    write(r, CASE j \in {"INNER", "LEFT", "RIGHT", "FULL", "CROSS"} -> <<Word(j), Space, Word("JOIN")>>
               [] OTHER -> <<Word("JOIN")>>)

renderTable(r, t) ==
    LET alias(q) == IF t.alias # "" THEN write(q, <<Space, Word("AS"), Space, Word(t.alias)>>) ELSE q
        on(q) ==
            IF t.on # Nil /\ t.type # "CROSS"
            THEN render("renderExpr", write(q, <<Space, Word("ON"), Space>>), t.on)
            ELSE q
    IN CASE t.k = "TableName" -> alias(renderIdentifier(r, t.name))
         [] t.k = "SubqueryTable" ->
              alias(write(render("renderSelect", write(r, <<Sym("(")>>), t.select), <<Sym(")")>>))
         [] t.k = "JoinExpr" ->
              on(render("renderTable",
                        write(renderJoinType(write(render("renderTable", r, t.left), <<Space>>),
                                             t.type),
                              <<Space>>),
                        t.right))
         [] OTHER -> fail(r)

\* one CTE of renderWith
renderCTE(r, cte) ==
    LET columns(q) ==
            IF cte.columns # <<>>
            THEN write(render("renderItems", write(q, <<Space, Sym("(")>>),
                              Items("renderIdentifier", cte.columns)),
                       <<Sym(")")>>)
            ELSE q
        select(q) == IF cte.select = Nil THEN fail(q) ELSE render("renderSelect", q, cte.select)
    IN write(select(write(columns(renderIdentifier(r, <<cte.name>>)),
                          <<Space, Word("AS"), Space, Sym("(")>>)),
             <<Sym(")")>>)

renderWith(r, with) ==
    render("renderItems",
           write(r, <<Word("WITH"), Space>>
                    \o (IF with.recursive THEN <<Word("RECURSIVE"), Space>> ELSE <<>>)),
           Items("renderCTE", with.ctes))

renderSetOperand(r, stmt) ==
    LET needsParens == (stmt.with # Nil /\ stmt.with.ctes # <<>>) \/ stmt.setOps # <<>>
        close(q) == IF needsParens THEN write(q, <<Sym(")")>>) ELSE q
    IN IF stmt = Nil THEN fail(r)
       ELSE close(render("renderSelect", IF needsParens THEN write(r, <<Sym("(")>>) ELSE r, stmt))

\* one turn of the loops of renderSelect
renderColumn(r, item) ==
    LET alias(q) ==
            IF item.alias # "" THEN write(q, <<Space, Word("AS"), Space, Word(item.alias)>>) ELSE q
    IN alias(render("renderExpr", r, item.expr))
renderOrderItem(r, item) ==
    write(render("renderExpr", r, item.expr), <<Space, Word(IF item.desc THEN "DESC" ELSE "ASC")>>)
renderSetOp(r, op) ==
    render("renderSetOperand",
           write(r, <<Space, Word(op.operator)>>
                    \o (IF op.all THEN <<Space, Word("ALL")>> ELSE <<>>) \o <<Space>>),
           op.select)

renderSelect(r, stmt) ==
    LET with(q) ==
            IF stmt.with # Nil /\ stmt.with.ctes # <<>>
            THEN write(render("renderWith", q, stmt.with), <<Space>>)
            ELSE q
        select(q) ==
            write(q, <<Word("SELECT"), Space>>
                     \o (IF stmt.distinct THEN <<Word("DISTINCT"), Space>> ELSE <<>>))
        columns(q) == render("renderItems", q, Items("renderColumn", stmt.columns))
        from(q) ==
            IF stmt.from # Nil
            THEN render("renderTable", write(q, <<Space, Word("FROM"), Space>>), stmt.from)
            ELSE q
        where(q) ==
            IF stmt.where # Nil
            THEN render("renderExpr", write(q, <<Space, Word("WHERE"), Space>>), stmt.where)
            ELSE q
        groupBy(q) ==
            IF stmt.groupBy # <<>>
            THEN render("renderItems", write(q, <<Space, Word("GROUP"), Space, Word("BY"), Space>>),
                        Items("renderExpr", stmt.groupBy))
            ELSE q
        having(q) ==
            IF stmt.having # Nil
            THEN render("renderExpr", write(q, <<Space, Word("HAVING"), Space>>), stmt.having)
            ELSE q
        orderBy(q) ==
            IF stmt.orderBy # <<>>
            THEN render("renderItems", write(q, <<Space, Word("ORDER"), Space, Word("BY"), Space>>),
                        Items("renderOrderItem", stmt.orderBy))
            ELSE q
        count(q) ==
            IF stmt.limit.count # Nil
            THEN render("renderExpr", write(q, <<Space, Word("LIMIT"), Space>>), stmt.limit.count)
            ELSE q
        offset(q) ==
            IF stmt.limit.offset # Nil
            THEN render("renderExpr", write(q, <<Space, Word("OFFSET"), Space>>), stmt.limit.offset)
            ELSE q
        limit(q) == IF stmt.limit # Nil THEN offset(count(q)) ELSE q
        setOps(q) == render("renderItems", q, [Items("renderSetOp", stmt.setOps) EXCEPT !.sep = FALSE])
    IN setOps(limit(orderBy(having(groupBy(where(from(columns(select(with(r))))))))))

render(fn, r, node) ==
    CASE fn = "renderExpr" -> renderExpr(r, node)
      [] fn = "renderItems" -> renderItems(r, node)
      [] fn = "renderIdentifier" -> renderIdentifier(r, <<node>>)
      [] fn = "renderColumn" -> renderColumn(r, node)
      [] fn = "renderOrderItem" -> renderOrderItem(r, node)
      [] fn = "renderSetOp" -> renderSetOp(r, node)
      [] fn = "renderSetOperand" -> renderSetOperand(r, node)
      [] fn = "renderTable" -> renderTable(r, node)
      [] fn = "renderCTE" -> renderCTE(r, node)
      [] fn = "renderWith" -> renderWith(r, node)
      [] OTHER -> renderSelect(r, node)

\* strings.TrimSpace on a text of pieces
RECURSIVE TrimSpaces(_)
TrimSpaces(text) ==
    IF text # <<>> /\ Head(text) = Space THEN TrimSpaces(Tail(text))
    ELSE IF text # <<>> /\ text[Len(text)] = Space THEN TrimSpaces(SubSeq(text, 1, Len(text) - 1))
    ELSE text

\* render.Render of a SelectStatement: the text, or an error
RenderSQL(stmt) ==
    LET done(r) == [err |-> r.errs > 0, text |-> IF r.errs > 0 THEN <<>> ELSE TrimSpaces(r.builder)]
    IN done(renderSelect(renderer, stmt))

\* ---- SQL lexer ----------------------------------------------------------------------
keywords ==
    {"SELECT", "CREATE", "DROP", "SHOW", "VIEW", "VIEWS", "TABLE", "TABLES", "DESCRIBE",
     "REPLACE", "MATERIALIZED", "INSERT", "UPDATE", "DELETE", "INTO", "VALUES", "SET", "FROM",
     "WHERE", "GROUP", "BY", "HAVING", "ORDER", "LIMIT", "OFFSET", "AS", "IF", "DISTINCT",
     "WITH", "RECURSIVE", "OVER", "PARTITION", "JOIN", "INNER", "LEFT", "RIGHT", "FULL",
     "OUTER", "CROSS", "ON", "AND", "OR", "NOT", "NULL", "TRUE", "FALSE", "IN", "EXISTS",
     "BETWEEN", "LIKE", "IS", "DESC", "ASC", "UNION", "INTERSECT", "EXCEPT", "ALL"}
Lookup(ident) == IF ident \in keywords THEN ident ELSE "IDENT"

\* strings.ToUpper on the words of the model: the names are written in lower
\* case, every other word is a keyword the renderer wrote in upper case
ToUpper(word) ==
    CASE word = "from" -> "FROM"
      [] word = "a" -> "A"
      [] word = "b" -> "B"
      [] word = "c" -> "C"
      [] word = "f" -> "F"
      [] word = "s" -> "S"
      [] word = "t" -> "T"
      [] word = "u" -> "U"
      [] word = "x" -> "X"
      [] OTHER -> word

\* readString on the string values of the model: a doubled quote is one quote
readString(s) == IF s = "''" THEN "'" ELSE s

\* the token of a one- or two-character symbol
symbolToken(s) ==
    CASE s = "," -> Tok("COMMA", s)
      [] s = ";" -> Tok("SEMICOLON", s)
      [] s = "(" -> Tok("LPAREN", s)
      [] s = ")" -> Tok("RPAREN", s)
      [] s = "." -> Tok("DOT", s)
      [] s = "*" -> Tok("STAR", s)
      [] s = "+" -> Tok("PLUS", s)
      [] s = "-" -> Tok("MINUS", s)
      [] s = "/" -> Tok("SLASH", s)
      [] s = "%" -> Tok("PERCENT", s)
      [] s = "=" -> Tok("EQ", s)
      [] s \in {"!=", "<>"} -> Tok("NEQ", s)
      [] s = "<" -> Tok("LT", s)
      [] s = "<=" -> Tok("LTE", s)
      [] s = ">" -> Tok("GT", s)
      [] s = ">=" -> Tok("GTE", s)
      [] s = "?" -> Tok("PLACEHOLDER", s)
      [] OTHER -> Tok("ILLEGAL", s)

\* consumeBlockComment: the text after the closing "*/", or nothing
RECURSIVE consumeBlockComment(_)
consumeBlockComment(text) ==
    IF Len(text) < 2 THEN <<>>
    ELSE IF text[1] = Sym("*") /\ text[2] = Sym("/") THEN Tail(Tail(text))
    ELSE consumeBlockComment(Tail(text))

\* NextToken until EOF: the tokens of the text.  The text is one line, so
\* consumeLine after "--" consumes the rest of it
RECURSIVE lex(_)
lex(text) ==
    LET piece == Head(text)
        rest == Tail(text)
        followedBy(s) == rest # <<>> /\ Head(rest) = Sym(s)
        upper == ToUpper(piece.s)
    IN IF text = <<>> THEN <<>>
       ELSE CASE piece.c = "space" -> lex(rest)
              [] piece = Sym("-") /\ followedBy("-") -> <<>>
              [] piece = Sym("/") /\ followedBy("*") -> lex(consumeBlockComment(Tail(rest)))
              [] piece.c = "symbol" -> <<symbolToken(piece.s)>> \o lex(rest)
              [] piece.c = "string" -> <<Tok("STRING", readString(piece.s))>> \o lex(rest)
              [] piece.c = "number" -> <<Tok("NUMBER", piece.s)>> \o lex(rest)
              [] OTHER ->
                   <<IF Lookup(upper) # "IDENT" THEN Tok(Lookup(upper), upper)
                     ELSE Tok("IDENT", piece.s)>> \o lex(rest)

\* ---- rendering a parsed SELECT and parsing the text again ---------------------------
Dot == Tok("DOT", ".")
Minus == Tok("MINUS", "-")
Plus == Tok("PLUS", "+")
String(v) == Tok("STRING", v)

\* stmt are the tokens the parser reads; pass counts the parses, first is the
\* statement of the first parse and text its rendering
RenderInput(stmt) == [stmt |-> stmt, trailer |-> <<>>, pass |-> 1, first |-> Nil, text |-> <<>>]

CallOfF == <<Id("f"), LParen, Id("a"), RParen>>
OverPartition == <<Keyword("OVER"), LParen, Keyword("PARTITION"), Keyword("BY"), Id("b")>>
OrderByA == <<Keyword("ORDER"), Keyword("BY"), Id("a")>>
\* the items of a select list; from in Id("from") is the quoted identifier "from"
RenderColumns ==
    { <<Id("a")>>, <<Id("a"), Id("x")>>, <<Id("a"), Keyword("AS"), Id("x")>>,
      <<Id("t"), Dot, Id("a")>>, <<Id("t"), Dot, StarToken>>, <<StarToken>>,
      <<Id("a"), Comma, Id("b")>>, <<Keyword("DISTINCT"), Id("a")>>,
      <<Number("1")>>, <<String("x")>>, <<String("'")>>,
      <<Keyword("TRUE")>>, <<Keyword("NULL")>>, <<Tok("PLACEHOLDER", "?")>>,
      <<Id("a"), Plus, Id("b"), StarToken, Number("2")>>,
      <<LParen, Id("a"), Plus, Id("b"), RParen, StarToken, Number("2")>>,
      CallOfF, <<Id("f"), LParen, RParen>>,
      <<Id("f"), LParen, Keyword("DISTINCT"), Id("a"), Comma, Id("b"), RParen>>,
      CallOfF \o OverPartition \o <<RParen>>,
      CallOfF \o OverPartition \o OrderByA \o <<Keyword("DESC"), RParen>>,
      CallOfF \o <<Keyword("OVER"), LParen>> \o OrderByA \o <<RParen>>,
      <<Minus, Id("a")>>, <<Minus, Minus, Id("a")>>, <<Minus, LParen, Minus, Id("a"), RParen>>,
      <<Id("from")>> }
RenderTables ==
    { <<Id("t")>>, <<Id("t"), Id("x")>>, <<Id("s"), Dot, Id("t")>>,
      <<LParen>> \o SelectOne \o <<RParen, Id("s")>>,
      <<Id("t"), Keyword("JOIN"), Id("u"), Keyword("ON"), Id("a"), Equals, Id("b")>>,
      <<Id("t"), Keyword("LEFT"), Keyword("OUTER"), Keyword("JOIN"), Id("u"),
        Keyword("ON"), Id("a"), Equals, Id("b")>>,
      <<Id("t"), Keyword("CROSS"), Keyword("JOIN"), Id("u")>> }
RenderPredicates ==
    { <<Id("a")>> \o c : c \in Comparisons }
    \cup { <<Keyword("NOT"), LParen, Id("a")>> \o c \o <<RParen>> : c \in Comparisons }
    \cup { <<Id("a"), Keyword("NOT")>> \o c :
               c \in { d \in Comparisons : d[1].type \in {"IN", "BETWEEN", "LIKE"} } }
    \cup { <<Id("a"), Equals, Number("1"), Keyword("AND"), Id("b"), Equals, Number("2"),
             Keyword("OR"), Id("c"), Equals, Number("3")>>,
           <<Id("a"), Equals, Number("1"), Keyword("AND"), LParen, Id("b"), Equals, Number("2"),
             Keyword("OR"), Id("c"), Equals, Number("3"), RParen>>,
           <<Keyword("NOT"), Id("a")>>,
           <<Keyword("NOT"), LParen, Id("a"), Keyword("AND"), Id("b"), RParen>>,
           <<Id("a"), Keyword("IS"), Keyword("NOT"), Keyword("NULL")>>,
           <<Id("a"), Keyword("IN"), LParen>> \o SelectOne \o <<RParen>>,
           <<Keyword("EXISTS"), LParen>> \o SelectOne \o <<RParen>> }
RenderTails ==
    { <<Keyword("GROUP"), Keyword("BY"), Id("a"), Comma, Id("b"),
        Keyword("HAVING"), Id("a"), Equals, Number("1")>>,
      OrderByA, OrderByA \o <<Keyword("DESC"), Comma, Id("b"), Keyword("ASC")>>,
      <<Keyword("LIMIT"), Number("1")>>,
      <<Keyword("LIMIT"), Number("1"), Keyword("OFFSET"), Number("2")>>,
      <<Keyword("UNION"), Keyword("ALL")>> \o SelectOne,
      <<Keyword("UNION")>> \o SelectOne \o <<Keyword("EXCEPT")>> \o SelectOne,
      <<Keyword("UNION"), LParen>> \o SelectOne \o <<Keyword("UNION")>> \o SelectOne
          \o <<RParen>> }
WithSelects ==
    { <<Keyword("WITH"), Id("c"), Keyword("AS"), LParen>> \o SelectOne
          \o <<RParen, Keyword("SELECT"), Id("a"), Keyword("FROM"), Id("c")>>,
      <<Keyword("WITH"), Keyword("RECURSIVE"), Id("c"), LParen, Id("a"), Comma, Id("b"), RParen,
        Keyword("AS"), LParen>> \o SelectOne
          \o <<RParen, Comma, Id("s"), Keyword("AS"), LParen>> \o SelectOne
          \o <<RParen, Keyword("SELECT"), Id("a"), Keyword("FROM"), Id("c")>> }
RenderInputs ==
    { RenderInput(<<Keyword("SELECT")>> \o c \o <<Keyword("FROM"), Id("t")>>) : c \in RenderColumns }
    \cup { RenderInput(<<Keyword("SELECT"), Id("a"), Keyword("FROM")>> \o t) : t \in RenderTables }
    \cup { RenderInput(SelectFromT \o <<Keyword("WHERE")>> \o w) : w \in RenderPredicates }
    \cup { RenderInput(SelectFromT \o t) : t \in RenderTails }
    \cup { RenderInput(s) : s \in WithSelects \cup {SelectOne} }

InitRender ==
    /\ StoreIdle
    /\ arg \in RenderInputs
    /\ res = <<>>
    /\ at = "parse_in"

\* render.Render of the SelectStatement of the first parse, then lexer.New and
\* parser.New over its text
RenderParsed ==
    /\ at = "parse_out"
    /\ arg.pass = 1
    /\ res.errors = <<>>
    /\ res.stmt.k = "SelectStatement"
    /\ LET rendered(t) ==
               /\ ~t.err
               /\ arg' = [arg EXCEPT !.stmt = lex(t.text), !.pass = 2, !.first = res.stmt,
                                     !.text = t.text]
       IN rendered(RenderSQL(res.stmt))
    /\ res' = <<>>
    /\ at' = "parse_in"
    /\ UNCHANGED storeVars

NextRender == Parse \/ Call \/ Return \/ Finish \/ RenderParsed
SpecRender == InitRender /\ [][NextRender]_vars

\* ==== properties ================================================================
IsCreate(t) == req[t].op = "CreateView"
IsDrop(t) == req[t].op = "DropView"
IsLoad(t) == req[t].op = "Load"

\* Save of thread t has succeeded and is about to release the lock file
SaveSucceeded(t) == IsCreate(t) /\ pc[t] = "s_unlock" /\ loc[t].err = NoErr
\* Save of thread t has failed after it created the lock file
SaveFailedLocked(t) == IsCreate(t) /\ pc[t] = "s_unlock" /\ loc[t].err # NoErr

\* q terminated by one newline: appended unless q already ends in one
Terminated(q) == IF Len(q) > 0 /\ q[Len(q)] = NL THEN q ELSE q \o <<NL>>

\* C1 (as claimed): whenever Save has succeeded, <base>.logsql exists and holds
\* exactly q followed by a newline.
C1_SaveWritesQueryNewline ==
    \A t \in Threads : SaveSucceeded(t) => view = File(req[t].q \o <<NL>>)

\* C1 (amended): a successful Save either replaced the file, which then holds q
\* terminated by a newline (appended only when q does not end in one), or it
\* was the IF NOT EXISTS no-op on an existing view, which leaves the file as
\* it was.
C1_SaveWritesTerminatedQuery ==
    \A t \in Threads : SaveSucceeded(t) =>
        IF loc[t].wrote
        THEN view = File(Terminated(req[t].q))
        ELSE req[t].ifNotExists /\ loc[t].statSaw = "file" /\ view = loc[t].snap

C1_Witness ==
    \E t \in Threads : SaveSucceeded(t) /\ loc[t].wrote /\ view = File(req[t].q \o <<NL>>)

\* C2: a Save that fails leaves <base>.logsql as it was when the Save took the
\* lock: same existence, same content.
C2_FailedSaveLeavesView ==
    \A t \in Threads : SaveFailedLocked(t) => view = loc[t].snap

\* C3: while CREATE OR REPLACE VIEW replaces an existing view, <base>.logsql
\* exists in every intermediate state and holds the complete old content or
\* the complete new content.
C3_ReplaceIsAtomic ==
    \A t \in Threads :
        (IsCreate(t) /\ loc[t].holds /\ loc[t].existingView) =>
            view \in {loc[t].snap, File(Terminated(req[t].q))}

C5_LockExcludesWriters ==
    /\ [](Cardinality({t \in Threads : loc[t].holds}) <= 1)
    /\ [][ (view' # view \/ (lock /\ ~lock')) =>
             \E t \in Threads : loc[t].holds /\ pc'[t] # pc[t] ]_vars

C5_Witness ==
    \E t, u \in Threads :
        /\ proc[t] # proc[u]
        /\ loc[t].holds /\ loc[t].existingView /\ view = Absent
        /\ pc[u] \in {"s_ret", "r_ret"} /\ loc[u].lockSeen /\ ~loc[u].acquired

\* the case of C6: no view and no lock file at the start, no DROP VIEW, no
\* failing system call
C6_Case == hist.clean /\ ~hist.drop /\ hist.faults = 0

\* C6 (as claimed): every CREATE VIEW request succeeds or observes "already
\* exists" (the latter without OR REPLACE).
C6_OthersExistOrSucceed ==
    C6_Case =>
        \A t \in Threads : (IsCreate(t) /\ ret[t].done) =>
            \/ ret[t].err = NoErr
            \/ ret[t].err.msg = "already exists" /\ ~req[t].orReplace

\* C6 (amended): exactly one request creates the view.  Each other request is
\* rejected with "locked" (423) when the lock file is held by a request of
\* another process, observes "already exists" (no OR REPLACE, no IF NOT
\* EXISTS), succeeds without writing (IF NOT EXISTS) or succeeds by replacing
\* the file after the earlier rename (OR REPLACE).  Requests of one process
\* are serialised by the store mutex and never meet the lock file.
C6_OneCreates ==
    C6_Case =>
        /\ hist.created <= 1
        /\ ((\A t \in Threads : pc[t] = "idle") /\ hist.creates >= 1) => hist.created = 1
        /\ \A t \in Threads : (IsCreate(t) /\ ret[t].done) =>
            \/ ret[t].err = NoErr /\ ret[t].wrote /\ ret[t].statSaw = "absent"
            \/ ret[t].err = NoErr /\ ret[t].wrote /\ ret[t].statSaw = "file"
                 /\ req[t].orReplace /\ ~req[t].ifNotExists
            \/ ret[t].err = NoErr /\ ~ret[t].wrote /\ ret[t].statSaw = "file"
                 /\ req[t].ifNotExists
            \/ ret[t].err = StoreError(StatusBadRequest, "already exists")
                 /\ ret[t].statSaw = "file" /\ ~req[t].orReplace /\ ~req[t].ifNotExists
            \/ ret[t].err = StoreError(StatusLocked, "locked")
                 /\ ret[t].lockSeen /\ ~ret[t].acquired
                 /\ \E u \in Threads : proc[u] # proc[t]

C6_Witness ==
    /\ C6_Case
    /\ \E t, u \in Threads :
        /\ IsCreate(t) /\ ret[t].done /\ ret[t].err = NoErr /\ ret[t].wrote
        /\ IsCreate(u) /\ ret[u].done /\ ret[u].err = StoreError(StatusLocked, "locked")
        /\ hist.created = 1

\* C7: a Load that overlaps writes of its own process (and no change of the
\* file by another process) returns the content as it was before those writes
\* or as one of them left it: found with that content, or not found when the
\* file was absent then.
C7_LoadSeesWholeWrite ==
    \A t \in Threads :
        (IsLoad(t) /\ ret[t].done /\ ret[t].err = NoErr /\ ~obs[t].foreign) =>
            IF ret[t].found
            THEN \E v \in obs[t].may : v.kind = "file" /\ ret[t].out = TrimRightCRLF(v.data)
            ELSE Absent \in obs[t].may

C7_Witness ==
    \E t, u \in Threads :
        /\ IsLoad(t) /\ ret[t].done /\ ret[t].err = NoErr /\ ret[t].found
        /\ ~obs[t].foreign /\ Cardinality(obs[t].may) = 2
        /\ proc[u] = proc[t] /\ IsCreate(u) /\ ret[u].done /\ ret[u].wrote
        /\ ret[t].out = TrimRightCRLF(Terminated(req[u].q))

\* C8: a Save that finds the lock file fails with StoreError 423 "locked"; it
\* creates no lock, writes nothing, and its steps leave the lock file and the
\* view file as they are.
C8_SaveOnLockedView ==
    /\ [](\A t \in Threads :
            /\ (IsCreate(t) /\ pc[t] = "s_ret" /\ loc[t].lockSeen) =>
                  /\ loc[t].err = StoreError(StatusLocked, "locked")
                  /\ ~loc[t].acquired /\ ~loc[t].wrote /\ tmp[t] = Absent
            /\ (IsCreate(t) /\ ret[t].done /\ ret[t].lockSeen) =>
                  /\ ret[t].err = StoreError(StatusLocked, "locked")
                  /\ ~ret[t].acquired /\ ~ret[t].wrote)
    /\ [][ \A t \in Threads :
             (/\ pc'[t] # pc[t]
              /\ \/ pc[t] = "s_lock" /\ lock
                 \/ pc[t] = "s_ret" /\ loc[t].lockSeen)
             => (lock' = lock /\ view' = view) ]_vars

C8_Witness ==
    \E t \in Threads :
        /\ IsCreate(t) /\ req[t].orReplace /\ ret[t].done /\ ret[t].lockSeen
        /\ ret[t].err.code = StatusLocked /\ lock /\ view = File(SeedContent)

\* C9: a Remove that finds the lock file fails as Save does, with StoreError
\* 423 "locked".
C9_RemoveOnLockedView ==
    \A t \in Threads :
        (IsDrop(t) /\ ret[t].done /\ ret[t].lockSeen) =>
            ret[t].err = StoreError(StatusLocked, "locked")

\* C10: CREATE VIEW IF NOT EXISTS on an existing view succeeds, returns the
\* translated query and leaves the file as it was, with or without OR REPLACE.
C10_IfNotExistsKeepsView ==
    \A t \in Threads :
        /\ (IsCreate(t) /\ req[t].ifNotExists /\ pc[t] = "s_unlock" /\ loc[t].statSaw = "file") =>
              (loc[t].err = NoErr /\ ~loc[t].wrote /\ view = loc[t].snap /\ tmp[t] = Absent)
        /\ (IsCreate(t) /\ req[t].ifNotExists /\ ret[t].done /\ ret[t].statSaw = "file") =>
              (ret[t].err = NoErr /\ ret[t].out = req[t].q /\ ~ret[t].wrote)

C10_Witness ==
    \E t \in Threads :
        /\ IsCreate(t) /\ req[t].ifNotExists /\ req[t].orReplace
        /\ ret[t].done /\ ret[t].statSaw = "file" /\ ret[t].out = req[t].q
        /\ view = File(SeedContent)
Translated == at = "sel_out"
Accepted == Translated /\ res.err = NoErr
FromTable == arg.stmt.from[1].k = "TableName"
FromJoin == arg.stmt.from[1].k = "JoinExpr" /\ arg.stmt.from[1].jtype \in {"INNER", "LEFT"}
JoinRight == arg.stmt.from[1].operands[2]
\* the statement's WITH names a CTE whose last name part is n, ignoring case
DefinesCTE(n) ==
    \E i \in 1..Len(arg.stmt.with) :
        ToLower(arg.stmt.with[i].parts[Len(arg.stmt.with[i].parts)]) = n
\* the stored view the table reference names, if the provider has a view store
StoredView(parts) ==
    IF arg.env.hasViewStore /\ Has(arg.env.views, sanitizeViewFileName(parts).file)
    THEN <<Get(arg.env.views, sanitizeViewFileName(parts).file)>> ELSE <<>>
\* the text the reference must resolve to: the CTE's query, else the stored
\* view without its final newline, else the catalog entry
ExpectedSource(parts) ==
    LET n == ToLower(parts[Len(parts)]) IN
    IF DefinesCTE(n) THEN <<TextR>>
    ELSE IF StoredView(parts) # <<>>
    THEN IF StoredView(parts)[1] = BlankView THEN <<>>
         ELSE <<SubSeq(StoredView(parts)[1], 1, Len(StoredView(parts)[1]) - 1)>>
    ELSE IF Has(arg.env.tables, n) THEN <<Get(arg.env.tables, n)>>
    ELSE <<>>
JoinStages == {i \in 1..Len(res.pipes) : res.pipes[i].op = "join"}

\* the right-hand query of a join reads source q: it is q, or q narrowed by the
\* ON conjuncts that mention the right side alone, as (q AND ...) or q | filter ...
ReadsSource(text, q) ==
    \/ text = q
    \/ /\ Len(text) > Len(q)
       /\ SubSeq(text, 1, Len(q)) = q
       /\ text[Len(q) + 1] = " | filter "
    \/ /\ Len(text) > Len(q) + 2
       /\ text[1] = "("
       /\ SubSeq(text, 2, Len(q) + 1) = q
       /\ text[Len(q) + 2] = " AND "

\* C13: a table name in FROM, and a table name on the right of a JOIN, is
\* resolved as a CTE of the statement first (by lower-cased last name part),
\* then as a stored view, then as a catalog table: with a CTE of that name the
\* program reads the CTE's query whatever the view store and the catalog hold,
\* and with a stored view and no CTE it reads the view whatever the catalog holds
C13_ResolutionOrder ==
    /\ (Translated /\ FromTable) =>
          LET parts == arg.stmt.from[1].parts
              n == ToLower(parts[Len(parts)])
              src == ExpectedSource(parts)
          IN /\ (DefinesCTE(n) \/ StoredView(parts) \notin {<<>>, <<BlankView>>})
                   => (res.err = NoErr /\ res.base = src[1])
             /\ (res.err = NoErr /\ arg.stmt.where = <<>>) => (src # <<>> /\ res.base = src[1])
             /\ src = <<>> => res.err # NoErr
    /\ (Translated /\ FromJoin /\ JoinRight.k = "TableName") =>
          LET parts == JoinRight.parts
              n == ToLower(parts[Len(parts)])
              src == ExpectedSource(parts)
          IN /\ (DefinesCTE(n) \/ StoredView(parts) \notin {<<>>, <<BlankView>>})
                   => (res.err = NoErr /\ \E i \in JoinStages : ReadsSource(res.pipes[i].text, src[1]))
             /\ res.err = NoErr => (src # <<>> /\ \A i \in JoinStages : ReadsSource(res.pipes[i].text, src[1]))
             /\ src = <<>> => res.err # NoErr

\* a CTE t, a stored view t and a catalog table t all exist: FROM t reads the CTE
C13_Witness ==
    /\ Accepted /\ FromTable /\ arg.stmt.from[1].parts = << <<"t">> >>
    /\ DefinesCTE(<<"t">>) /\ StoredView(<< <<"t">> >>) = <<ViewT>>
    /\ Has(arg.env.tables, <<"t">>)
    /\ res.base = TextR

FromSubquery == arg.stmt.from[1].k = "SubqueryTable"

\* C14 as stated: a parenthesised subquery in FROM, with or without an alias,
\* is accepted as the base of a SELECT whenever the subquery itself translates;
\* the program starts with the subquery's program and the stages of the outer
\* query follow it
C14_SubqueryBaseAccepted ==
    (Translated /\ FromSubquery /\ ExpectedSource(<< <<"t">> >>) # <<>>) =>
        /\ res.err = NoErr
        /\ res.base = ExpectedSource(<< <<"t">> >>)[1]
        /\ Len(arg.stmt.orderBy) > 0 => \E i \in 1..Len(res.pipes) : res.pipes[i].op = "sort"

IsAggregateItem(col) ==
    col.expr.k = "FuncCall" /\ ~col.expr.hasOver /\ col.expr.fn \in {"COUNT", "SUM", "AVG", "MIN", "MAX"}
HasAggregate == \E i \in 1..Len(arg.stmt.columns) : IsAggregateItem(arg.stmt.columns[i])
InGroupBy(e) == \E j \in 1..Len(arg.stmt.groupBy) : Render(arg.stmt.groupBy[j]) = Render(e)

\* C15 as stated: in every accepted SELECT with an aggregate, each select item
\* that is not an aggregate is one of the GROUP BY expressions, compared by
\* rendered text
C15_NonAggregatedInGroupBy ==
    (Accepted /\ HasAggregate) =>
        \A i \in 1..Len(arg.stmt.columns) :
            IsAggregateItem(arg.stmt.columns[i]) \/ InGroupBy(arg.stmt.columns[i].expr)

StatsStages == {i \in 1..Len(res.pipes) : res.pipes[i].op = "stats"}
GroupsByAlias ==
    /\ arg.stmt.groupBy = <<Ident("x")>>
    /\ \E i \in 1..Len(arg.stmt.columns) :
          arg.stmt.columns[i].alias = <<"x">> /\ ~IsAggregateItem(arg.stmt.columns[i])
    /\ \A i \in 1..Len(arg.stmt.columns) :
          arg.stmt.columns[i].alias = <<"x">> \/ IsAggregateItem(arg.stmt.columns[i])

\* C16 as stated: GROUP BY may name a select-list alias.  A statement whose
\* select list is aggregates and columns aliased x, grouped by x, without
\* HAVING and DISTINCT, is accepted and its stats stage groups by the aliased
\* expression: by u for u AS x, by the computed field group_1 for LOWER(u) AS x
C16_GroupByAlias ==
    (Translated /\ GroupsByAlias /\ HasAggregate /\ arg.stmt.having = <<>> /\ ~arg.stmt.distinct) =>
        /\ res.err = NoErr
        /\ \E i \in StatsStages :
              res.pipes[i].args \in { << <<"u">> >>, << GroupPrefix \o <<"1">> >> }

HavingStages == {i \in 1..Len(res.pipes) : res.pipes[i].op = "filter" /\ res.pipes[i].tag = "having"}

\* C17: a SELECT with HAVING and no aggregate in its select list is rejected,
\* and the program of an accepted SELECT with HAVING holds one filter stage for
\* HAVING, placed after the stats stage
C17_HavingAfterStats ==
    (Translated /\ arg.stmt.having # <<>>) =>
        /\ ~HasAggregate => res.err # NoErr
        /\ res.err = NoErr =>
              /\ Cardinality(HavingStages) = 1
              /\ StatsStages # {}
              /\ \A h \in HavingStages : \A s \in StatsStages : s < h

\* HAVING COUNT(*) > 1 over a grouped aggregation has been translated
C17_Witness ==
    /\ Accepted /\ arg.stmt.having # <<>> /\ arg.stmt.groupBy # <<>>
    /\ \E h \in HavingStages : res.pipes[h].text = <<"c", ":", ">", "1">>

ExplicitColumns == \A i \in 1..Len(arg.stmt.columns) : arg.stmt.columns[i].expr.k # "StarExpr"
FieldsStages == {i \in 1..Len(res.pipes) : res.pipes[i].op = "fields"}

ComputationStages == {i \in 1..Len(res.pipes) : res.pipes[i].op \in {"format", "math", "running_stats"}}
UserAliases == {arg.stmt.columns[i].alias : i \in 1..Len(arg.stmt.columns)}
\* the computation stages whose field name the translator made up
SynthesisedStages == {i \in ComputationStages : res.pipes[i].as \notin UserAliases}
MatchesAliasPattern(s) ==
    Len(s) > 0 /\ \A i \in 1..Len(s) : s[i] \in AlnumChars \cup {"_", ".", "-"}

\* C19 as stated: in an accepted program every field name the translator made
\* up (<prefix>_<field>, group_N, __filter_expr_N) matches [A-Za-z0-9_.-]+ and
\* no two computation stages write the same made-up name
C19_SynthesisedAliasesUnique ==
    Accepted =>
        /\ \A i \in SynthesisedStages : MatchesAliasPattern(res.pipes[i].as)
        /\ \A i, j \in SynthesisedStages : i # j => res.pipes[i].as # res.pipes[j].as

IsWindowItem(col) == col.expr.k = "FuncCall" /\ col.expr.hasOver
HasWindow == \E i \in 1..Len(arg.stmt.columns) : IsWindowItem(arg.stmt.columns[i])
HasDistinctWindow ==
    \E i \in 1..Len(arg.stmt.columns) : IsWindowItem(arg.stmt.columns[i]) /\ arg.stmt.columns[i].expr.distinct
RunningStages == {i \in 1..Len(res.pipes) : res.pipes[i].op = "running_stats"}

LikeSubjects == SeqsUpTo({"a", "%", "*", "\\"}, MaxPatternLen)

\* the SQL rule: % matches any sequence of characters, _ exactly one character,
\* a character after \ and every other character itself, anchored at both ends
RECURSIVE LikeAccepts(_, _)
LikeAccepts(p, s) ==
    IF p = <<>> THEN s = <<>>
    ELSE CASE p[1] = "%" -> \E k \in 0..Len(s) : LikeAccepts(Tail(p), SubSeq(s, k + 1, Len(s)))
           [] p[1] = "_" -> s # <<>> /\ LikeAccepts(Tail(p), Tail(s))
           [] p[1] = "\\" /\ Len(p) > 1 ->
                s # <<>> /\ s[1] = p[2] /\ LikeAccepts(Tail(Tail(p)), Tail(s))
           [] OTHER -> s # <<>> /\ s[1] = p[1] /\ LikeAccepts(Tail(p), Tail(s))

\* C21: the filter emitted for f LIKE p accepts exactly the strings the SQL rule
\* accepts for p.  A filter accepts one set of strings, so two patterns that
\* are given the same filter accept the same strings under the SQL rule.
C21_LikeExact ==
    (at = "like_out" /\ res.p = res.q)
        => \A s \in LikeSubjects : LikeAccepts(arg.p, s) <=> LikeAccepts(arg.q, s)

\* ---- claims about filter computations ---------------------------------------------
\* the synthetic fields __filter_expr_1, __filter_expr_2, ...
FilterAliases == { FilterExprPrefix \o Itoa(n) : n \in 1..3 }
\* the positions of text where alias a is read by a filter (a:...)
ReadsOf(text, a) ==
    { i \in 1..Len(text) :
        /\ i + Len(a) <= Len(text)
        /\ SubSeq(text, i, i + Len(a) - 1) = a
        /\ text[i + Len(a)] = ":" }
\* the positions of text where a stage writes alias a (... as a)
WritesOf(text, a) ==
    { i \in 2..Len(text) :
        /\ i + Len(a) - 1 <= Len(text)
        /\ SubSeq(text, i, i + Len(a) - 1) = a
        /\ text[i - 1] \in {" as ", ">\" as "} }
MainFilters == {i \in 1..Len(res.pipes) : res.pipes[i].op = "filter"}
JoinQueries == {i \in 1..Len(res.pipes) : res.pipes[i].op = "join"}

\* C24: in an accepted program every __filter_expr_N a filter reads is written
\* by a computation stage before that filter in the same pipeline and deleted
\* by a delete stage after it; the pipeline of a filter inside the right-hand
\* side of a JOIN is that right-hand side
C24_FilterFieldsComputed ==
    Accepted =>
        \A a \in FilterAliases :
            /\ \A i \in MainFilters :
                 ReadsOf(res.pipes[i].text, a) # {} =>
                     /\ \E j \in 1..(i - 1) :
                          res.pipes[j].op \in {"format", "math"} /\ res.pipes[j].as = a
                     /\ \E k \in (i + 1)..Len(res.pipes) :
                          /\ res.pipes[k].op = "delete"
                          /\ \E n \in 1..Len(res.pipes[k].args) : res.pipes[k].args[n] = a
            /\ \A i \in JoinQueries :
                 \A r \in ReadsOf(res.pipes[i].text, a) :
                     \E w \in WritesOf(res.pipes[i].text, a) : w < r

\* the same for the filters of the main pipeline alone
C24_MainPipelineOnly ==
    Accepted =>
        \A a \in FilterAliases : \A i \in MainFilters :
            ReadsOf(res.pipes[i].text, a) # {} =>
                /\ \E j \in 1..(i - 1) :
                     res.pipes[j].op \in {"format", "math"} /\ res.pipes[j].as = a
                /\ \E k \in (i + 1)..Len(res.pipes) :
                     /\ res.pipes[k].op = "delete"
                     /\ \E n \in 1..Len(res.pipes[k].args) : res.pipes[k].args[n] = a

\* ---- claims about ORDER BY ----------------------------------------------------------
\* the field a sort clause names (the clause without its direction)
SortField(clause) ==
    IF Len(clause) > 1 /\ clause[Len(clause)] = " desc"
    THEN SubSeq(clause, 1, Len(clause) - 1) ELSE clause
SortStages == {i \in 1..Len(res.pipes) : res.pipes[i].op = "sort"}
\* stage j keeps field f: a fields stage lists it, a rename stage does not
\* rename it away, every other stage leaves it alone
KeepsField(j, f) ==
    LET p == res.pipes[j]
    IN CASE p.op = "fields" -> \E n \in 1..Len(p.args) : p.args[n] = f
         [] p.op = "rename" ->
              \A n \in 1..Len(p.args) :
                  ~(Len(p.args[n]) > Len(f) /\ SubSeq(p.args[n], 1, Len(f)) = f
                       /\ p.args[n][Len(f) + 1] = " as ")
         [] OTHER -> TRUE

\* C25: every field named in an emitted sort by (...) is still present at that
\* point: no earlier fields stage of the program dropped it and no earlier
\* rename stage renamed it away
C25_SortFieldsPresent ==
    Accepted =>
        \A i \in SortStages : \A n \in 1..Len(res.pipes[i].args) :
            \A j \in 1..(i - 1) : KeepsField(j, SortField(res.pipes[i].args[n]))

\* ---- claims about view file names -----------------------------------------------
\* two view names differ by letter case alone (or not at all)
SameUpToCase(a, b) ==
    /\ Len(a) = Len(b)
    /\ \A i \in 1..Len(a) : ToLower(a[i]) = ToLower(b[i])

\* C26: two view names that both have a file and differ other than by letter
\* case never have the same <base>.logsql file
C26_OneFilePerView ==
    (at = "name_out" /\ res.a.err = NoErr /\ res.b.err = NoErr /\ res.a.path = res.b.path)
        => SameUpToCase(arg.a, arg.b)

\* ---- claims about SHOW VIEWS ------------------------------------------------------
\* C27: every row of a SHOW VIEWS answer carries a view name and a query that
\* is not empty, also when views are created and dropped while it runs
C27_RowsCarryQueries ==
    (at = "show_out" /\ res.err = NoErr)
        => \A i \in 1..Len(res.rows) :
               res.rows[i].view_name # <<>> /\ ~IsBlank(res.rows[i].query)


\* ---- C22 ----------------------------------------------------------------------------
HasError(errors, msg) == \E i \in 1..Len(errors) : errors[i][1] = msg
\* tokens follow the statement: not every token after it is a semicolon
TokensFollow(trailer) == \E i \in 1..Len(trailer) : trailer[i].type # "SEMICOLON"

\* C22: whatever the statement kind, a token other than EOF that follows the
\* statement, directly or after trailing semicolons, is reported as an
\* "unexpected token ... after statement" error.
C22_TrailingTokenReported ==
    (at = "parse_out" /\ TokensFollow(arg.trailer))
        => HasError(res.errors, "unexpected token %s after statement")


\* ---- C28 ----------------------------------------------------------------------------
\* C28: prefix NOT binds more loosely than the comparison family and more
\* tightly than AND: in WHERE NOT a <comparison> [AND b = 2] the operand of NOT is
\* the whole comparison, and the negation is the left operand of the AND.
C28_NotBelowComparison ==
    (at = "parse_out" /\ arg.cmp # <<>>) =>
        LET where == res.stmt.where
            negation == IF arg.conj THEN where.left ELSE where
        IN /\ arg.conj => (where.k = "BinaryExpr" /\ where.operator = "AND")
           /\ negation.k = "UnaryExpr"
           /\ negation.operator = "NOT"
           /\ negation.expr.k \in {"BinaryExpr", "InExpr", "BetweenExpr", "LikeExpr", "IsNullExpr"}


\* ---- C29 ----------------------------------------------------------------------------
\* C29: input nested more deeply than the nesting limit, through parenthesised
\* expressions, subqueries, parenthesised table expressions or nested WITH
\* clauses, is rejected with a diagnostic, and the calls of the parse functions
\* never nest more deeply than the limit.
C29_DeepNestingRejected ==
    (at = "parse_out" /\ arg.nest > MaxParserDepth)
        => (res.errors # <<>> /\ res.deepest <= MaxParserDepth)


\* ---- C30 ----------------------------------------------------------------------------
\* C30: a statement with a comma-separated expression list (select list,
\* function arguments, IN list, GROUP BY, PARTITION BY) of more items than the
\* item bound fails with a diagnostic.
C30_LongListRejected ==
    (at = "parse_out" /\ arg.longest > MaxExpressionCount) => res.errors # <<>>


\* C23: rendering a parsed SelectStatement and parsing the text again gives a
\* statement equal to the first one, with no parse error.
C23_RoundTrip ==
    (at = "parse_out" /\ arg.pass = 2) => (res.errors = <<>> /\ res.stmt = arg.first)

====
